---------------------------- MODULE Spec2Model ----------------------------
(***************************************************************************)
(* Order lifecycle and bill consistency protocol of the restaurant system: *)
(* the order service (OrderService) and the table/bill service             *)
(* (BillService, TableService, DataConsistencyService, ServiceIntegration, *)
(* periodic_data_sync).  Every request is a process that takes one step    *)
(* per await on the document store or on another service.                  *)
(***************************************************************************)
EXTENDS Integers, Sequences, FiniteSets, TLC

VARIABLES
    orders,     \* order store: order id -> [status, table_id]
    item_status, \* order store: order id -> the status of each line item of the order
    oproc,      \* order-service requests in flight
    notifs,     \* POST /api/orders/status requests on their way to the table/bill service
    tbUp,       \* the table/bill service answers the order service
    tables,     \* table store: table id -> status
    bills,      \* bill store: the documents, in insertion order
    bproc,      \* table/bill-service requests in flight, and the periodic driver
    orderUp,    \* the order service answers the table/bill service
    menuUp,     \* the menu service answers the table/bill service
    menu,       \* menu service: item id -> current price
    health,     \* ServiceIntegration._service_health
    now         \* time.time(), in seconds

vars == <<orders, item_status, oproc, notifs, tbUp, tables, bills, bproc, orderUp, menuUp, menu, health, now>>

orderVars == <<orders, item_status, oproc, notifs, tbUp>>
billVars == <<tables, bills, bproc, orderUp, menuUp, menu, health, now>>

-----------------------------------------------------------------------------
(* Identifiers and inputs *)

Orders == {"o1", "o2"}
Tables == {"T3", "T7"}
OProcs == {"r1", "r2"}

\* the items of each order, as the order service returns them
OrderItems ==
    [o \in Orders |->
        IF o = "o1" THEN << [item_id |-> "pasta", quantity |-> 2, price |-> 50] >>
                    ELSE << [item_id |-> "soup", quantity |-> 1, price |-> 30],
                            [item_id |-> "pasta", quantity |-> 1, price |-> 50] >>]

\* OrderItem.status of each line item of a new order
ItemStatus == {"pending", "in-progress", "completed", "cancelled"}
NewItemStatus(o) == [k \in DOMAIN OrderItems[o] |-> "pending"]

\* OrderStatus
Status == {"received", "in-progress", "paused", "ready", "delivered", "completed", "cancelled"}
Absent == "absent"

\* no document for the order id
NoOrder == [status |-> Absent, table_id |-> "none"]

\* cap on the copies of one notification that are in flight at once
MaxNotifs == 1

\* OrderService.VALID_STATUS_TRANSITIONS
VALID_STATUS_TRANSITIONS_SkipDelivered ==
    [s \in Status |->
        CASE s = "received"    -> {"in-progress", "received", "cancelled"}
          [] s = "in-progress" -> {"ready", "in-progress", "paused", "cancelled"}
          [] s = "paused"      -> {"in-progress", "paused", "cancelled"}
          [] s = "ready"       -> {"delivered", "completed", "ready", "cancelled"}
          [] s = "delivered"   -> {"completed", "delivered", "cancelled"}
          [] s = "completed"   -> {"completed"}
          [] s = "cancelled"   -> {"cancelled"}]

VALID_STATUS_TRANSITIONS ==
    [s \in Status |->
        CASE s = "received"    -> {"in-progress", "received", "cancelled"}
          [] s = "in-progress" -> {"ready", "in-progress", "paused", "cancelled"}
          [] s = "paused"      -> {"in-progress", "paused", "cancelled"}
          [] s = "ready"       -> {"delivered", "ready", "cancelled"}
          [] s = "delivered"   -> {"completed", "delivered", "cancelled"}
          [] s = "completed"   -> {"completed"}
          [] s = "cancelled"   -> {"cancelled"}]

\* OrderService._is_valid_status_transition
is_valid_status_transition(current_status, new_status) ==
    IF new_status = "cancelled" /\ current_status # "completed"
    THEN TRUE
    ELSE new_status \in VALID_STATUS_TRANSITIONS[current_status]

\* notify_table_service_about_order_status sends only these
NotifiedStatuses == {"completed", "cancelled"}
NotifKeys == Orders \X NotifiedStatuses

-----------------------------------------------------------------------------
(* Order service *)

OIdle == [pc |-> "idle", op |-> "none", order |-> "none", req |-> "none",
          cur |-> "none", res |-> "none", ret |-> "none", nfail |-> FALSE]

\* OrderService.get_order: the stored status, or Absent for None
get_order(o) == orders[o].status

\* the POST of notify_table_service_about_order_status: delivered to the
\* table/bill service, or failed (RequestError, logged)
PostNotification(o, s) ==
    IF tbUp /\ notifs[<<o, s>>] < MaxNotifs
    THEN notifs' = [notifs EXCEPT ![<<o, s>>] = @ + 1]
    ELSE UNCHANGED notifs

NotificationFails(o, s) == ~tbUp \/ notifs[<<o, s>>] >= MaxNotifs

\* create_order: validation passed, the order is inserted with status received
create_order(p, o, t) ==
    /\ oproc[p].pc = "idle"
    /\ orders[o].status = Absent
    /\ orders' = [orders EXCEPT ![o] = [status |-> "received", table_id |-> t]]
    /\ oproc' = [oproc EXCEPT ![p] = [OIdle EXCEPT !.pc = "co_table", !.op = "create_order",
                                                   !.order = o]]
    /\ UNCHANGED <<notifs, tbUp>>
    /\ item_status' = [item_status EXCEPT ![o] = NewItemStatus(o)]
    /\ UNCHANGED billVars

\* the table ids a client posts, character by character
Digits == {"0", "1", "2", "3", "4", "5", "6", "7", "8", "9"}
TableIdInputs == {<<"T", "3">>, <<"T", "7">>, <<>>, <<"T">>, <<"7">>, <<"T", "x">>, <<"t", "3">>}

\* the posted table id as the string that is stored
RECURSIVE TableIdString(_)
TableIdString(chars) == IF chars = <<>> THEN "" ELSE Head(chars) \o TableIdString(Tail(chars))

\* str.isdigit()
isdigit(chars) == chars # <<>> /\ \A i \in DOMAIN chars : chars[i] \in Digits

\* OrderService.create_order: table_id and table_id.startswith('T') and table_id[1:].isdigit()
valid_table_id(chars) == chars # <<>> /\ Head(chars) = "T" /\ isdigit(Tail(chars))

\* POST /orders (the route create_order and OrderService.create_order up to the insert):
\* an empty item list raises ValueError in the route, answered with 400; a ValueError
\* of the service, as any other exception of the service, is caught by the route's
\* inner handler and answered with 500
create_order_route(p, o, chars, item_count, storage_ok) ==
    /\ oproc[p].pc = "idle"
    /\ orders[o].status = Absent
    /\ IF item_count = 0
       THEN /\ oproc' = [oproc EXCEPT ![p] = [OIdle EXCEPT !.pc = "done", !.op = "create_order",
                                                           !.res = "400"]]
            /\ orders' = orders
       ELSE IF ~valid_table_id(chars) \/ ~storage_ok
       THEN /\ oproc' = [oproc EXCEPT ![p] = [OIdle EXCEPT !.pc = "done", !.op = "create_order",
                                                           !.res = "500"]]
            /\ orders' = orders
       ELSE /\ oproc' = [oproc EXCEPT ![p] = [OIdle EXCEPT !.pc = "co_table", !.op = "create_order",
                                                           !.order = o]]
            /\ orders' = [orders EXCEPT ![o] = [status |-> "received",
                                                table_id |-> TableIdString(chars)]]
    /\ item_status' = [item_status EXCEPT ![o] = NewItemStatus(o)]
    /\ UNCHANGED <<notifs, tbUp>>
    /\ UNCHANGED billVars

\* create_order: PUT /api/tables/{id}/status?status=occupied (update_table_status_route);
\* any failure is logged and the order is returned
create_order_notify_table(p) ==
    /\ oproc[p].pc = "co_table"
    /\ LET t == orders[oproc[p].order].table_id IN
       tables' = IF tbUp /\ orders[oproc[p].order].status # Absent /\ tables[t] # Absent
                 THEN [tables EXCEPT ![t] = "occupied"]
                 ELSE tables
    /\ oproc' = [oproc EXCEPT ![p].pc = "done", ![p].res = "ok", ![p].ret = "received"]
    /\ UNCHANGED <<orders, notifs, tbUp, bills, bproc, orderUp, menuUp, menu, health, now, item_status>>

\* a client calls update_order_status(order_id, status), or update_order with a status
call_update_order_status(p, o, s, op) ==
    /\ oproc[p].pc = "idle"
    /\ oproc' = [oproc EXCEPT ![p] = [OIdle EXCEPT !.pc = "uos_get", !.op = op,
                                                   !.order = o, !.req = s]]
    /\ UNCHANGED <<orders, notifs, tbUp, item_status>>
    /\ UNCHANGED billVars

\* update_order_status: get_order, then the transition is validated
update_order_status_get(p) ==
    /\ oproc[p].pc = "uos_get"
    /\ LET cur == get_order(oproc[p].order) IN
       oproc' = [oproc EXCEPT ![p] =
            IF cur = Absent
            THEN [@ EXCEPT !.pc = "done", !.res = "notfound"]
            ELSE IF ~is_valid_status_transition(cur, oproc[p].req)
            THEN [@ EXCEPT !.pc = "done", !.res = "invalid", !.cur = cur]
            ELSE [@ EXCEPT !.pc = "uos_write", !.cur = cur]]
    /\ UNCHANGED <<orders, notifs, tbUp, item_status>>
    /\ UNCHANGED billVars

\* update_order_status if it went on to the notification without the update_one
update_order_status_write_SkipsWrite(p) ==
    /\ oproc[p].pc = "uos_write"
    /\ oproc' = [oproc EXCEPT ![p].pc = "uos_notify"]
    /\ UNCHANGED <<orders, notifs, tbUp, item_status>>
    /\ UNCHANGED billVars

\* update_order_status: update_one({"order_id": id}, {"$set": {"status": new}})
update_order_status_write(p) ==
    /\ oproc[p].pc = "uos_write"
    /\ orders' = IF orders[oproc[p].order].status # Absent
                 THEN [orders EXCEPT ![oproc[p].order].status = oproc[p].req]
                 ELSE orders
    /\ oproc' = [oproc EXCEPT ![p].pc = "uos_notify"]
    /\ UNCHANGED <<notifs, tbUp, item_status>>
    /\ UNCHANGED billVars

\* update_order_status: notify_table_service_about_order_status, failures logged
update_order_status_notify_Raises(p) ==
    /\ oproc[p].pc = "uos_notify"
    /\ IF oproc[p].req \in NotifiedStatuses
       THEN /\ PostNotification(oproc[p].order, oproc[p].req)
            /\ oproc' = [oproc EXCEPT ![p] =
                    IF NotificationFails(oproc[p].order, oproc[p].req)
                    THEN [@ EXCEPT !.pc = "done", !.res = "error", !.nfail = TRUE]
                    ELSE [@ EXCEPT !.pc = "uos_ret"]]
       ELSE /\ UNCHANGED notifs
            /\ oproc' = [oproc EXCEPT ![p].pc = "uos_ret"]
    /\ UNCHANGED <<orders, tbUp, item_status>>
    /\ UNCHANGED billVars

update_order_status_notify(p) ==
    /\ oproc[p].pc = "uos_notify"
    /\ IF oproc[p].req \in NotifiedStatuses
       THEN /\ PostNotification(oproc[p].order, oproc[p].req)
            /\ oproc' = [oproc EXCEPT ![p].pc = "uos_ret",
                            ![p].nfail = NotificationFails(oproc[p].order, oproc[p].req)]
       ELSE /\ UNCHANGED notifs
            /\ oproc' = [oproc EXCEPT ![p].pc = "uos_ret"]
    /\ UNCHANGED <<orders, tbUp, item_status>>
    /\ UNCHANGED billVars

\* update_order_status: return await get_order(order_id); cancel_order goes on
update_order_status_return(p) ==
    /\ oproc[p].pc = "uos_ret"
    /\ LET got == get_order(oproc[p].order) IN
       oproc' = [oproc EXCEPT ![p] =
            IF got = Absent
            THEN [@ EXCEPT !.pc = "done", !.res = "notfound"]
            ELSE IF oproc[p].op = "cancel_order"
            THEN [@ EXCEPT !.pc = "cancel_notify", !.ret = got]
            ELSE [@ EXCEPT !.pc = "done", !.res = "ok", !.ret = got]]
    /\ UNCHANGED <<orders, notifs, tbUp, item_status>>
    /\ UNCHANGED billVars

\* a client calls cancel_order(order_id)
call_cancel_order(p, o) ==
    /\ oproc[p].pc = "idle"
    /\ oproc' = [oproc EXCEPT ![p] = [OIdle EXCEPT !.pc = "cancel_get", !.op = "cancel_order",
                                                   !.order = o, !.req = "cancelled"]]
    /\ UNCHANGED <<orders, notifs, tbUp, item_status>>
    /\ UNCHANGED billVars

\* cancel_order: get_order, the already-cancelled and completed cases
cancel_order_get_RejectsCancelled(p) ==
    /\ oproc[p].pc = "cancel_get"
    /\ LET existing == get_order(oproc[p].order) IN
       oproc' = [oproc EXCEPT ![p] =
            IF existing = Absent
            THEN [@ EXCEPT !.pc = "done", !.res = "notfound"]
            ELSE IF existing \in {"cancelled", "completed"}
            THEN [@ EXCEPT !.pc = "done", !.res = "cannot_cancel", !.cur = existing]
            ELSE [@ EXCEPT !.pc = "uos_get", !.cur = existing]]
    /\ UNCHANGED <<orders, notifs, tbUp, item_status>>
    /\ UNCHANGED billVars

cancel_order_get(p) ==
    /\ oproc[p].pc = "cancel_get"
    /\ LET existing == get_order(oproc[p].order) IN
       oproc' = [oproc EXCEPT ![p] =
            IF existing = Absent
            THEN [@ EXCEPT !.pc = "done", !.res = "notfound"]
            ELSE IF existing = "cancelled"
            THEN [@ EXCEPT !.pc = "done", !.res = "ok", !.ret = existing, !.cur = existing]
            ELSE IF existing = "completed"
            THEN [@ EXCEPT !.pc = "done", !.res = "cannot_cancel", !.cur = existing]
            ELSE [@ EXCEPT !.pc = "uos_get", !.cur = existing]]
    /\ UNCHANGED <<orders, notifs, tbUp, item_status>>
    /\ UNCHANGED billVars

\* cancel_order: the second notification, after update_order_status returned the order
cancel_order_notify(p) ==
    /\ oproc[p].pc = "cancel_notify"
    /\ PostNotification(oproc[p].order, "cancelled")
    /\ oproc' = [oproc EXCEPT ![p].pc = "done", ![p].res = "ok",
                    ![p].nfail = oproc[p].nfail \/ NotificationFails(oproc[p].order, "cancelled")]
    /\ UNCHANGED <<orders, tbUp, item_status>>
    /\ UNCHANGED billVars

\* a client calls PUT /orders/{order_id}/items/{item_id} {status}
call_update_order_item(p, o, item_id, status) ==
    /\ oproc[p].pc = "idle"
    /\ oproc' = [oproc EXCEPT ![p] = [OIdle EXCEPT !.pc = "uoi_check", !.op = "update_order_item",
                                                   !.order = o, !.cur = item_id, !.req = status]]
    /\ UNCHANGED <<orders, item_status, notifs, tbUp>>
    /\ UNCHANGED billVars

\* the position of the item in the order's items, 0 for None
item_index(o, item_id) ==
    IF \E k \in DOMAIN OrderItems[o] : OrderItems[o][k].item_id = item_id
    THEN CHOOSE k \in DOMAIN OrderItems[o] :
            /\ OrderItems[o][k].item_id = item_id
            /\ \A j \in DOMAIN OrderItems[o] : OrderItems[o][j].item_id = item_id => k <= j
    ELSE 0

\* the route if it refused item updates on orders that are completed or cancelled
update_order_item_check_RejectsClosedOrders(p) ==
    /\ oproc[p].pc = "uoi_check"
    /\ oproc' = [oproc EXCEPT ![p] =
            IF get_order(oproc[p].order) = Absent \/ item_index(oproc[p].order, oproc[p].cur) = 0
            THEN [@ EXCEPT !.pc = "done", !.res = "404"]
            ELSE IF get_order(oproc[p].order) \in {"completed", "cancelled"}
            THEN [@ EXCEPT !.pc = "done", !.res = "400"]
            ELSE [@ EXCEPT !.pc = "uoi_get"]]
    /\ UNCHANGED <<orders, item_status, notifs, tbUp>>
    /\ UNCHANGED billVars

\* the route update_order_item: get_order, 404 for no order and for no such item
update_order_item_check(p) ==
    /\ oproc[p].pc = "uoi_check"
    /\ oproc' = [oproc EXCEPT ![p] =
            IF get_order(oproc[p].order) = Absent \/ item_index(oproc[p].order, oproc[p].cur) = 0
            THEN [@ EXCEPT !.pc = "done", !.res = "404"]
            ELSE [@ EXCEPT !.pc = "uoi_get"]]
    /\ UNCHANGED <<orders, item_status, notifs, tbUp>>
    /\ UNCHANGED billVars

\* OrderService.update_order_item: get_order and the item's index; None for no order
update_order_item_get(p) ==
    /\ oproc[p].pc = "uoi_get"
    /\ oproc' = [oproc EXCEPT ![p] =
            IF get_order(oproc[p].order) = Absent
            THEN [@ EXCEPT !.pc = "done", !.res = "none"]
            ELSE [@ EXCEPT !.pc = "uoi_write"]]
    /\ UNCHANGED <<orders, item_status, notifs, tbUp>>
    /\ UNCHANGED billVars

\* OrderService.update_order_item: update_one({"order_id": o}, {"$set":
\* {"items.<index>.status": status, "updated_at": now}}), then get_order for the
\* response.  The items of a stored order never change, so the index found at the
\* read is the item's index at the write.
update_order_item_write(p) ==
    /\ oproc[p].pc = "uoi_write"
    /\ LET o == oproc[p].order
           k == item_index(o, oproc[p].cur)
       IN  /\ item_status' = IF orders[o].status = Absent THEN item_status
                             ELSE [item_status EXCEPT ![o][k] = oproc[p].req]
           /\ oproc' = [oproc EXCEPT ![p].pc = "done",
                                     ![p].res = IF orders[o].status = Absent THEN "none" ELSE "ok",
                                     ![p].ret = orders[o].status]
    /\ UNCHANGED <<orders, notifs, tbUp>>
    /\ UNCHANGED billVars

\* a client calls DELETE /orders/{order_id}
call_delete_order(p, o) ==
    /\ oproc[p].pc = "idle"
    /\ oproc' = [oproc EXCEPT ![p] = [OIdle EXCEPT !.pc = "del_get", !.op = "delete_order",
                                                   !.order = o]]
    /\ UNCHANGED <<orders, item_status, notifs, tbUp>>
    /\ UNCHANGED billVars

\* OrderService.delete_order: get_order; False (the route's 400) when there is none
delete_order_get(p) ==
    /\ oproc[p].pc = "del_get"
    /\ oproc' = [oproc EXCEPT ![p] =
            IF get_order(oproc[p].order) = Absent
            THEN [@ EXCEPT !.pc = "done", !.res = "400"]
            ELSE [@ EXCEPT !.pc = "del_write", !.cur = get_order(oproc[p].order)]]
    /\ UNCHANGED <<orders, item_status, notifs, tbUp>>
    /\ UNCHANGED billVars

\* OrderService.delete_order: delete_one({"order_id": o}); False when nothing was deleted
delete_order_write(p) ==
    /\ oproc[p].pc = "del_write"
    /\ LET o == oproc[p].order IN
       IF orders[o].status = Absent
       THEN /\ oproc' = [oproc EXCEPT ![p].pc = "done", ![p].res = "400"]
            /\ UNCHANGED <<orders, item_status>>
       ELSE /\ orders' = [orders EXCEPT ![o] = NoOrder]
            /\ item_status' = [item_status EXCEPT ![o] = NewItemStatus(o)]
            /\ oproc' = [oproc EXCEPT ![p].pc = "done", ![p].res = "deleted"]
    /\ UNCHANGED <<notifs, tbUp>>
    /\ UNCHANGED billVars

\* the response is sent and the request is over
order_request_done(p) ==
    /\ oproc[p].pc = "done"
    /\ oproc' = [oproc EXCEPT ![p] = OIdle]
    /\ UNCHANGED <<orders, notifs, tbUp, item_status>>
    /\ UNCHANGED billVars

\* the table/bill service stops or resumes answering
table_bill_service_flips ==
    /\ tbUp' = ~tbUp
    /\ UNCHANGED <<orders, oproc, notifs, item_status>>
    /\ UNCHANGED billVars

-----------------------------------------------------------------------------
(* Table/bill service: data *)

BProcs == {"b1", "b2"}
Driver == "drv"
Services == {"order_service", "menu_service"}

\* ServiceIntegration.HEALTH_CHECK_INTERVAL, MAX_FAILURES, and the 60 s of is_service_available
HEALTH_CHECK_INTERVAL == 30
MAX_FAILURES == 3
RECOVERY_TIMEOUT == 60
\* failure_count is kept up to this value
FailCap == 4
\* the clock stops here
MaxTime == 130

\* ACTIVE_BILL_STATUSES
ACTIVE_BILL_STATUSES == {"open", "final"}

MenuItems == {"pasta", "soup"}

\* bill_id = f"bill-{order_id}"
BillId(o) == "bill-" \o o

\* collection.find_one on the bill store: the first match, as a sequence of length 0 or 1
FirstWhere(docs, field, value) ==
    LET S == {i \in DOMAIN docs : docs[i][field] = value}
    IN  IF S = {} THEN <<>> ELSE <<docs[CHOOSE i \in S : \A j \in S : i <= j]>>

find_one_by_order(o) == FirstWhere(bills, "order_id", o)
find_one_by_bill_id(b) == FirstWhere(bills, "bill_id", b)

\* the position update_one({"bill_id": b}, ...) writes: the first match, 0 for none
MatchedIndex(b) ==
    LET S == {i \in DOMAIN bills : bills[i].bill_id = b}
    IN  IF S = {} THEN 0 ELSE CHOOSE i \in S : \A j \in S : i <= j

\* the unique index on bill_id (create_indexes): may this document be inserted?
bill_id_unique_NoIndex(doc) == TRUE

bill_id_unique(doc) == \A i \in DOMAIN bills : bills[i].bill_id # doc.bill_id

\* a total that adds the prices and leaves the quantities out
RECURSIVE SumItems_IgnoresQuantity(_)
SumItems_IgnoresQuantity(items) ==
    IF items = <<>> THEN 0
    ELSE Head(items).price + SumItems_IgnoresQuantity(Tail(items))

RECURSIVE SumItems(_)
SumItems(items) ==
    IF items = <<>> THEN 0
    ELSE Head(items).price * Head(items).quantity + SumItems(Tail(items))

(* Service-health tracker *)

Bump(n) == IF n < FailCap THEN n + 1 ELSE n

\* a failure that marks the service unavailable only after MAX_FAILURES are exceeded
record_failure_OneMoreFailure(h, svc) ==
    [h EXCEPT ![svc].failure_count = Bump(@),
              ![svc].available = IF Bump(h[svc].failure_count) > MAX_FAILURES THEN FALSE ELSE @]

\* failure_count += 1; available = False once failure_count >= MAX_FAILURES
record_failure(h, svc) ==
    [h EXCEPT ![svc].failure_count = Bump(@),
              ![svc].available = IF Bump(h[svc].failure_count) >= MAX_FAILURES THEN FALSE ELSE @]

\* one service's half of check_service_health
probe(h, svc, up, t) ==
    IF t - h[svc].last_check > HEALTH_CHECK_INTERVAL
    THEN IF up
         THEN [h EXCEPT ![svc] = [available |-> TRUE, failure_count |-> 0, last_check |-> t]]
         ELSE [record_failure(h, svc) EXCEPT ![svc].last_check = t]
    ELSE h

\* ServiceIntegration.check_service_health
check_service_health(h, t) ==
    probe(probe(h, "order_service", orderUp, t), "menu_service", menuUp, t)

\* is_service_available if the timeout reset available and kept failure_count
is_service_available_KeepsCount(h, svc, t) ==
    IF ~h[svc].available /\ t - h[svc].last_check > RECOVERY_TIMEOUT
    THEN [h EXCEPT ![svc].available = TRUE]
    ELSE h

\* ServiceIntegration.is_service_available: the tracker after the call
is_service_available(h, svc, t) ==
    IF ~h[svc].available /\ t - h[svc].last_check > RECOVERY_TIMEOUT
    THEN [h EXCEPT ![svc].available = TRUE, ![svc].failure_count = 0]
    ELSE h

\* fetch_order_details if it sent its request whatever the tracker says
fetch_order_details_NoGate(o) ==
    LET h1 == check_service_health(health, now)
        h2 == is_service_available(h1, "order_service", now)
    IN  IF orderUp /\ orders[o].status # Absent
        THEN [data |-> orders[o].status, health |-> h2]
        ELSE [data |-> "none", health |-> record_failure(h2, "order_service")]

\* ServiceIntegration.fetch_order_details: [data, health]; data is "none" for {}
fetch_order_details(o) ==
    LET h1 == check_service_health(health, now)
        h2 == is_service_available(h1, "order_service", now)
    IN  IF ~h2["order_service"].available THEN [data |-> "none", health |-> h2]
        ELSE IF orderUp /\ orders[o].status # Absent
             THEN [data |-> orders[o].status, health |-> h2]
             \* a 404 raises HTTPException inside the try, a connection error raises
             \* RequestError: both end in an except branch that counts a failure
             ELSE [data |-> "none", health |-> record_failure(h2, "order_service")]

\* ServiceIntegration.fetch_menu_item_details: [ok, price, health]
fetch_menu_item_details(h, item_id) ==
    LET h1 == is_service_available(h, "menu_service", now)
    IN  IF ~h1["menu_service"].available THEN [ok |-> FALSE, price |-> 0, health |-> h1]
        ELSE IF menuUp
             THEN IF item_id \in DOMAIN menu
                  THEN [ok |-> TRUE, price |-> menu[item_id], health |-> h1]
                  ELSE [ok |-> FALSE, price |-> 0, health |-> h1]
             ELSE [ok |-> FALSE, price |-> 0, health |-> record_failure(h1, "menu_service")]

\* create_bill_from_order, step 4: one bill item per order item.  The second value of
\* fetch_menu_item_details is its success flag and is read here as is_fallback, so the
\* price is the order item's price whether the lookup succeeds or not.
RECURSIVE bill_items_from_order(_, _)
bill_items_from_order(items, h) ==
    IF items = <<>> THEN [items |-> <<>>, health |-> h]
    ELSE LET got == fetch_menu_item_details(h, Head(items).item_id)
             rest == bill_items_from_order(Tail(items), got.health)
         IN  [items |-> << [item_id |-> Head(items).item_id, price |-> Head(items).price,
                            quantity |-> Head(items).quantity] >> \o rest.items,
              health |-> rest.health]

\* the price the bill held for an item: a sequence of length 0 or 1
RECURSIVE original_price(_, _)
original_price(items, item_id) ==
    IF items = <<>> THEN <<>>
    ELSE IF Head(items).item_id = item_id THEN <<Head(items).price>>
    ELSE original_price(Tail(items), item_id)

\* the refreshed items when the bill's previous price is not consulted
RECURSIVE refreshed_items_SkipsBillPrice(_, _, _)
refreshed_items_SkipsBillPrice(items, old, h) ==
    IF items = <<>> THEN [items |-> <<>>, health |-> h, from_bill |-> {}]
    ELSE LET got == fetch_menu_item_details(h, Head(items).item_id)
             rest == refreshed_items_SkipsBillPrice(Tail(items), old, got.health)
         IN  [items |-> << [item_id |-> Head(items).item_id,
                            price |-> IF got.ok THEN got.price ELSE Head(items).price,
                            quantity |-> Head(items).quantity] >> \o rest.items,
              health |-> rest.health,
              from_bill |-> {}]

\* force_refresh_from_services: the refreshed items (menu price, else the bill's
\* previous price, else the order's price); from_bill is the set of items whose price
\* was taken from the bill
RECURSIVE refreshed_items(_, _, _)
refreshed_items(items, old, h) ==
    IF items = <<>> THEN [items |-> <<>>, health |-> h, from_bill |-> {}]
    ELSE LET got == fetch_menu_item_details(h, Head(items).item_id)
             orig == original_price(old, Head(items).item_id)
             price == IF got.ok THEN got.price
                      ELSE IF orig # <<>> THEN orig[1] ELSE Head(items).price
             rest == refreshed_items(Tail(items), old, got.health)
         IN  [items |-> << [item_id |-> Head(items).item_id, price |-> price,
                            quantity |-> Head(items).quantity] >> \o rest.items,
              health |-> rest.health,
              from_bill |-> (IF ~got.ok /\ orig # <<>> THEN {Head(items).item_id} ELSE {})
                            \cup rest.from_bill]

-----------------------------------------------------------------------------
(* Table/bill service: requests *)

BillIds == {BillId(o) : o \in Orders}
PaymentInputs == {"paid", "failed"}
BillStatusInputs == {"open", "paid", "cancelled"}

BIdle == [pc |-> "idle", op |-> "none", order |-> "none", nstatus |-> "none",
          bill |-> "none", arg |-> "none", seen |-> <<>>, ostatus |-> "none",
          new |-> <<>>, res |-> "none", ret |-> <<>>, prev |-> <<>>, snap |-> <<>>,
          queue |-> <<>>]

envVars == <<orderUp, menuUp, menu, now>>

\* a request ends: the response, or the exception the route turns into one
finish(p, res, ret) == [bproc[p] EXCEPT !.pc = "done", !.res = res, !.ret = ret]

\* a client calls POST /api/bills {order_id}
call_create_bill_from_order(p, o) ==
    /\ bproc[p].pc = "idle"
    /\ bproc' = [bproc EXCEPT ![p] = [BIdle EXCEPT !.pc = "cb_find", !.op = "create", !.order = o]]
    /\ UNCHANGED <<tables, bills, health>>
    /\ UNCHANGED envVars
    /\ UNCHANGED orderVars

\* create_bill_from_order, step 1: the bill that exists for the order is returned
create_bill_find_existing_NoPreCheck(p) ==
    /\ bproc[p].pc = "cb_find"
    /\ bproc' = [bproc EXCEPT ![p].pc = "cb_fetch"]
    /\ UNCHANGED <<tables, bills, health>>
    /\ UNCHANGED envVars
    /\ UNCHANGED orderVars

create_bill_find_existing(p) ==
    /\ bproc[p].pc = "cb_find"
    /\ LET existing_bill == find_one_by_order(bproc[p].order) IN
       bproc' = [bproc EXCEPT ![p] =
            IF existing_bill # <<>> THEN finish(p, "ok", existing_bill)
            ELSE [@ EXCEPT !.pc = "cb_fetch"]]
    /\ UNCHANGED <<tables, bills, health>>
    /\ UNCHANGED envVars
    /\ UNCHANGED orderVars

\* create_bill_from_order, steps 2 and 3: the order is fetched and must be completed
create_bill_fetch_order_NoStatusCheck(p) ==
    /\ bproc[p].pc = "cb_fetch"
    /\ LET got == fetch_order_details(bproc[p].order) IN
       /\ health' = got.health
       /\ bproc' = [bproc EXCEPT ![p] =
            IF got.data = "none" THEN finish(p, "404", <<>>)
            ELSE [@ EXCEPT !.pc = "cb_prices", !.ostatus = got.data]]
    /\ UNCHANGED <<tables, bills>>
    /\ UNCHANGED envVars
    /\ UNCHANGED orderVars

\* create_bill_from_order checking the status the notification carried in place of the
\* status of the order it fetched
create_bill_fetch_order_TrustsNotification(p) ==
    /\ bproc[p].pc = "cb_fetch"
    /\ LET got == fetch_order_details(bproc[p].order)
           status == IF bproc[p].op = "notify" THEN bproc[p].nstatus ELSE got.data
       IN
       /\ health' = got.health
       /\ bproc' = [bproc EXCEPT ![p] =
            IF got.data = "none" THEN finish(p, "404", <<>>)
            ELSE IF status # "completed" THEN finish(p, "400", <<>>)
            ELSE [@ EXCEPT !.pc = "cb_prices", !.ostatus = got.data]]
    /\ UNCHANGED <<tables, bills>>
    /\ UNCHANGED envVars
    /\ UNCHANGED orderVars

create_bill_fetch_order(p) ==
    /\ bproc[p].pc = "cb_fetch"
    /\ LET got == fetch_order_details(bproc[p].order) IN
       /\ health' = got.health
       /\ bproc' = [bproc EXCEPT ![p] =
            IF got.data = "none" THEN finish(p, "404", <<>>)
            ELSE IF got.data # "completed" THEN finish(p, "400", <<>>)
            ELSE [@ EXCEPT !.pc = "cb_prices", !.ostatus = got.data]]
    /\ UNCHANGED <<tables, bills>>
    /\ UNCHANGED envVars
    /\ UNCHANGED orderVars

\* create_bill_from_order, steps 4 and 5: the items, the total, the new document
create_bill_prices(p) ==
    /\ bproc[p].pc = "cb_prices"
    /\ LET o == bproc[p].order
           priced == bill_items_from_order(OrderItems[o], health)
           new_bill == [bill_id |-> BillId(o), table_id |-> orders[o].table_id,
                        order_id |-> o, status |-> "final", payment_status |-> "pending",
                        items |-> priced.items, total_amount |-> SumItems(priced.items)]
       IN /\ health' = priced.health
          /\ bproc' = [bproc EXCEPT ![p].pc = "cb_table_find", ![p].new = <<new_bill>>]
    /\ UNCHANGED <<tables, bills>>
    /\ UNCHANGED envVars
    /\ UNCHANGED orderVars

\* create_bill_from_order if the 404 of update_table_status were not caught
create_bill_table_find_AbortsOnMissingTable(p) ==
    /\ bproc[p].pc = "cb_table_find"
    /\ bproc' = [bproc EXCEPT ![p] =
            IF tables[bproc[p].new[1].table_id] = Absent THEN finish(p, "404", <<>>)
            ELSE [@ EXCEPT !.pc = "cb_table_write"]]
    /\ UNCHANGED <<tables, bills, health>>
    /\ UNCHANGED envVars
    /\ UNCHANGED orderVars

\* TableService.update_table_status(table, "occupied"): the existence check; a missing
\* table raises HTTPException, which create_bill_from_order logs
create_bill_table_find(p) ==
    /\ bproc[p].pc = "cb_table_find"
    /\ bproc' = [bproc EXCEPT ![p].pc =
            IF tables[bproc[p].new[1].table_id] = Absent THEN "cb_insert" ELSE "cb_table_write"]
    /\ UNCHANGED <<tables, bills, health>>
    /\ UNCHANGED envVars
    /\ UNCHANGED orderVars

\* TableService.update_table_status(table, "occupied"): the update_one
create_bill_table_write(p) ==
    /\ bproc[p].pc = "cb_table_write"
    /\ tables' = [tables EXCEPT ![bproc[p].new[1].table_id] = "occupied"]
    /\ bproc' = [bproc EXCEPT ![p].pc = "cb_insert"]
    /\ UNCHANGED <<bills, health>>
    /\ UNCHANGED envVars
    /\ UNCHANGED orderVars

\* create_bill_from_order: insert_one; DuplicateKeyError leaves the store as it is
create_bill_insert(p) ==
    /\ bproc[p].pc = "cb_insert"
    /\ bills' = IF bill_id_unique(bproc[p].new[1]) THEN Append(bills, bproc[p].new[1]) ELSE bills
    /\ bproc' = [bproc EXCEPT ![p].pc = "cb_reread"]
    /\ UNCHANGED <<tables, health>>
    /\ UNCHANGED envVars
    /\ UNCHANGED orderVars

\* create_bill_from_order: find_one({"bill_id": bill_id}) after the insert or after
\* DuplicateKeyError, and the bill is returned
create_bill_reread(p) ==
    /\ bproc[p].pc = "cb_reread"
    /\ LET doc == find_one_by_bill_id(bproc[p].new[1].bill_id) IN
       bproc' = [bproc EXCEPT ![p] =
            IF doc = <<>> THEN finish(p, "500", <<>>) ELSE finish(p, "ok", doc)]
    /\ UNCHANGED <<tables, bills, health>>
    /\ UNCHANGED envVars
    /\ UNCHANGED orderVars

\* order_status_notification: a notification of the order service arrives
receive_notification(p, o, s) ==
    /\ bproc[p].pc = "idle"
    /\ notifs[<<o, s>>] > 0
    /\ notifs' = [notifs EXCEPT ![<<o, s>>] = @ - 1]
    /\ bproc' = [bproc EXCEPT ![p] = [BIdle EXCEPT !.pc = "n_find", !.op = "notify",
                                                   !.order = o, !.nstatus = s]]
    /\ UNCHANGED <<tables, bills, health, orders, oproc, tbUp, item_status>>
    /\ UNCHANGED envVars

\* order_status_notification: any client posts {order_id, status} (a duplicate, a stale one)
post_notification(p, o, s) ==
    /\ bproc[p].pc = "idle"
    /\ bproc' = [bproc EXCEPT ![p] = [BIdle EXCEPT !.pc = "n_find", !.op = "notify",
                                                   !.order = o, !.nstatus = s]]
    /\ UNCHANGED <<tables, bills, health>>
    /\ UNCHANGED envVars
    /\ UNCHANGED orderVars

\* order_status_notification: find_one({"order_id": id}) and the branch taken
notification_find_AlwaysRefreshes(p) ==
    /\ bproc[p].pc = "n_find"
    /\ LET existing_bill == find_one_by_order(bproc[p].order)
           s == bproc[p].nstatus
       IN bproc' = [bproc EXCEPT ![p] =
            IF existing_bill = <<>>
            THEN IF s = "completed" THEN [@ EXCEPT !.pc = "cb_find"]
                 ELSE finish(p, "ok", <<>>)
            ELSE IF s = "cancelled"
                 THEN IF existing_bill[1].status # "open" THEN finish(p, "ok", <<>>)
                      ELSE [@ EXCEPT !.pc = "n_cancel_write", !.bill = existing_bill[1].bill_id]
            ELSE IF s = "completed"
                 THEN [@ EXCEPT !.pc = "fr_find", !.bill = existing_bill[1].bill_id]
            ELSE finish(p, "ok", <<>>)]
    /\ UNCHANGED <<tables, bills, health>>
    /\ UNCHANGED envVars
    /\ UNCHANGED orderVars

notification_find(p) ==
    /\ bproc[p].pc = "n_find"
    /\ LET existing_bill == find_one_by_order(bproc[p].order)
           s == bproc[p].nstatus
       IN bproc' = [bproc EXCEPT ![p] =
            IF existing_bill = <<>>
            THEN IF s = "completed" THEN [@ EXCEPT !.pc = "cb_find"]
                 ELSE finish(p, "ok", <<>>)
            ELSE IF existing_bill[1].status # "open" THEN finish(p, "ok", <<>>)
            ELSE IF s = "cancelled"
                 THEN [@ EXCEPT !.pc = "n_cancel_write", !.bill = existing_bill[1].bill_id]
            ELSE IF s = "completed"
                 THEN [@ EXCEPT !.pc = "fr_find", !.bill = existing_bill[1].bill_id]
            ELSE finish(p, "ok", <<>>)]
    /\ UNCHANGED <<tables, bills, health>>
    /\ UNCHANGED envVars
    /\ UNCHANGED orderVars

\* update_one({"bill_id": b}, {"$set": {"status": st}})
set_bill_status(b, st) ==
    IF MatchedIndex(b) = 0 THEN bills
    ELSE [bills EXCEPT ![MatchedIndex(b)].status = st]

\* order_status_notification: the open bill of a cancelled order is marked cancelled
notification_cancel_write(p) ==
    /\ bproc[p].pc = "n_cancel_write"
    /\ bills' = set_bill_status(bproc[p].bill, "cancelled")
    /\ bproc' = [bproc EXCEPT ![p] = finish(p, "ok", <<>>)]
    /\ UNCHANGED <<tables, health>>
    /\ UNCHANGED envVars
    /\ UNCHANGED orderVars

\* order_status_notification: after the refresh the open bill is marked final
notification_final_write(p) ==
    /\ bproc[p].pc = "n_final_write"
    /\ bills' = set_bill_status(bproc[p].bill, "final")
    /\ bproc' = [bproc EXCEPT ![p] = finish(p, "ok", <<>>)]
    /\ UNCHANGED <<tables, health>>
    /\ UNCHANGED envVars
    /\ UNCHANGED orderVars

\* force_refresh_from_services returns to its caller: the notification handler, the
\* periodic driver, or the route
refresh_returns(p, res) ==
    IF bproc[p].op = "notify" THEN [bproc[p] EXCEPT !.pc = "n_final_write", !.res = res]
    ELSE IF bproc[p].op = "driver" THEN [bproc[p] EXCEPT !.pc = "d_next", !.res = res]
    ELSE finish(p, res, <<>>)

\* a client calls POST /api/bills/{bill_id}/refresh
call_force_refresh(p, b) ==
    /\ bproc[p].pc = "idle"
    /\ bproc' = [bproc EXCEPT ![p] = [BIdle EXCEPT !.pc = "fr_find", !.op = "refresh", !.bill = b]]
    /\ UNCHANGED <<tables, bills, health>>
    /\ UNCHANGED envVars
    /\ UNCHANGED orderVars

\* force_refresh_from_services: find_one({"bill_id": b})
force_refresh_find(p) ==
    /\ bproc[p].pc = "fr_find"
    /\ LET bill == find_one_by_bill_id(bproc[p].bill) IN
       bproc' = [bproc EXCEPT ![p] =
            IF bill = <<>> THEN refresh_returns(p, "issues")
            ELSE [@ EXCEPT !.pc = "fr_fetch", !.seen = bill]]
    /\ UNCHANGED <<tables, bills, health>>
    /\ UNCHANGED envVars
    /\ UNCHANGED orderVars

\* force_refresh_from_services if it went on with an order it could not fetch
force_refresh_fetch_order_GoesOnWithoutOrder(p) ==
    /\ bproc[p].pc = "fr_fetch"
    /\ LET got == fetch_order_details(bproc[p].seen[1].order_id) IN
       /\ health' = got.health
       /\ bproc' = [bproc EXCEPT ![p] = [@ EXCEPT !.pc = "fr_prices", !.ostatus = got.data]]
    /\ UNCHANGED <<tables, bills>>
    /\ UNCHANGED envVars
    /\ UNCHANGED orderVars

\* force_refresh_from_services: fetch_order_details(bill_order_id)
force_refresh_fetch_order(p) ==
    /\ bproc[p].pc = "fr_fetch"
    /\ LET got == fetch_order_details(bproc[p].seen[1].order_id) IN
       /\ health' = got.health
       /\ bproc' = [bproc EXCEPT ![p] =
            IF got.data = "none" THEN refresh_returns(p, "issues")
            ELSE [@ EXCEPT !.pc = "fr_prices", !.ostatus = got.data]]
    /\ UNCHANGED <<tables, bills>>
    /\ UNCHANGED envVars
    /\ UNCHANGED orderVars

\* force_refresh_from_services: the status update_data carries, "none" when it carries
\* no status
refresh_status_AlwaysFinal(order_status, bill_status) ==
    IF bill_status # "final" THEN "final" ELSE "none"

refresh_status(order_status, bill_status) ==
    IF order_status \in {"completed", "delivered"} /\ bill_status # "final"
    THEN "final" ELSE "none"

\* force_refresh_from_services: the refreshed items, the total and update_data, all
\* computed from the bill as it was read (from_bill is kept with update_data and is
\* not written)
force_refresh_prices(p) ==
    /\ bproc[p].pc = "fr_prices"
    /\ LET bill == bproc[p].seen[1]
           o == bill.order_id
           fresh == refreshed_items(OrderItems[o], bill.items, health)
           update_data ==
               [items |-> fresh.items, total_amount |-> SumItems(fresh.items),
                from_bill |-> fresh.from_bill,
                table_id |-> IF orders[o].table_id # bill.table_id
                             THEN orders[o].table_id ELSE "none",
                status |-> refresh_status(bproc[p].ostatus, bill.status)]
       IN /\ health' = fresh.health
          /\ bproc' = [bproc EXCEPT ![p].pc = "fr_write", ![p].new = <<update_data>>]
    /\ UNCHANGED <<tables, bills>>
    /\ UNCHANGED envVars
    /\ UNCHANGED orderVars

\* find_one_and_update({"bill_id": b}, {"$set": update_data}) on the stored document
apply_refresh(doc, update_data) ==
    [doc EXCEPT !.items = update_data.items,
                !.total_amount = update_data.total_amount,
                !.table_id = IF update_data.table_id = "none" THEN @ ELSE update_data.table_id,
                !.status = IF update_data.status = "none" THEN @ ELSE update_data.status]

\* force_refresh_from_services: the write
force_refresh_write(p) ==
    /\ bproc[p].pc = "fr_write"
    /\ LET i == MatchedIndex(bproc[p].bill) IN
       /\ bills' = IF i = 0 THEN bills
                   ELSE [bills EXCEPT ![i] = apply_refresh(@, bproc[p].new[1])]
       /\ bproc' = [bproc EXCEPT ![p] = refresh_returns(p, IF i = 0 THEN "issues" ELSE "refreshed")]
    /\ UNCHANGED <<tables, health>>
    /\ UNCHANGED envVars
    /\ UNCHANGED orderVars

\* a client calls PUT /api/bills/{bill_id}/payment-status
call_update_payment_status(p, b, ps) ==
    /\ bproc[p].pc = "idle"
    /\ bproc' = [bproc EXCEPT ![p] = [BIdle EXCEPT !.pc = "ps_find", !.op = "pay",
                                                   !.bill = b, !.arg = ps]]
    /\ UNCHANGED <<tables, bills, health>>
    /\ UNCHANGED envVars
    /\ UNCHANGED orderVars

\* update_payment_status: find_one({"bill_id": b})
update_payment_status_find(p) ==
    /\ bproc[p].pc = "ps_find"
    /\ LET bill == find_one_by_bill_id(bproc[p].bill) IN
       bproc' = [bproc EXCEPT ![p] =
            IF bill = <<>> THEN finish(p, "404", <<>>)
            ELSE [@ EXCEPT !.pc = "ps_write", !.seen = bill]]
    /\ UNCHANGED <<tables, bills, health>>
    /\ UNCHANGED envVars
    /\ UNCHANGED orderVars

\* update_payment_status: update_one; the main status becomes paid only if the bill
\* that was read is open
update_payment_status_write(p) ==
    /\ bproc[p].pc = "ps_write"
    /\ LET i == MatchedIndex(bproc[p].bill) IN
       /\ bills' = IF i = 0 THEN bills
                   ELSE [bills EXCEPT ![i].payment_status = bproc[p].arg,
                                      ![i].status = IF bproc[p].arg = "paid"
                                                       /\ bproc[p].seen[1].status = "open"
                                                    THEN "paid" ELSE @]
       /\ bproc' = [bproc EXCEPT ![p] =
            IF i = 0 THEN finish(p, "404", <<>>) ELSE [@ EXCEPT !.pc = "ps_reread"]]
    /\ UNCHANGED <<tables, health>>
    /\ UNCHANGED envVars
    /\ UNCHANGED orderVars

\* update_payment_status: the updated document is read back
update_payment_status_reread(p) ==
    /\ bproc[p].pc = "ps_reread"
    /\ LET updated == find_one_by_bill_id(bproc[p].bill) IN
       bproc' = [bproc EXCEPT ![p] =
            IF updated = <<>> THEN finish(p, "500", <<>>)
            ELSE IF bproc[p].arg = "paid" \/ updated[1].status \in {"closed", "paid"}
            THEN [@ EXCEPT !.pc = "ps_count", !.ret = updated]
            ELSE finish(p, "ok", updated)]
    /\ UNCHANGED <<tables, bills, health>>
    /\ UNCHANGED envVars
    /\ UNCHANGED orderVars

\* count_documents({"table_id": t, "bill_id": {"$ne": b}, "status": {"$in": ACTIVE_BILL_STATUSES}})
active_bill_count(t, b) ==
    Cardinality({i \in DOMAIN bills :
        /\ bills[i].table_id = t
        /\ bills[i].bill_id # b
        /\ bills[i].status \in ACTIVE_BILL_STATUSES})

\* update_payment_status: the other active bills of the table are counted
update_payment_status_count(p) ==
    /\ bproc[p].pc = "ps_count"
    /\ bproc' = [bproc EXCEPT ![p] =
            IF active_bill_count(bproc[p].seen[1].table_id, bproc[p].bill) = 0
            THEN [@ EXCEPT !.pc = "ps_table_find"]
            ELSE finish(p, "ok", bproc[p].ret)]
    /\ UNCHANGED <<tables, bills, health>>
    /\ UNCHANGED envVars
    /\ UNCHANGED orderVars

\* TableService.update_table_status(table, "available"): the existence check
update_payment_status_table_find(p) ==
    /\ bproc[p].pc = "ps_table_find"
    /\ bproc' = [bproc EXCEPT ![p] =
            IF tables[bproc[p].seen[1].table_id] = Absent THEN finish(p, "ok", bproc[p].ret)
            ELSE [@ EXCEPT !.pc = "ps_table_write"]]
    /\ UNCHANGED <<tables, bills, health>>
    /\ UNCHANGED envVars
    /\ UNCHANGED orderVars

\* TableService.update_table_status(table, "available"): the update_one
update_payment_status_table_write(p) ==
    /\ bproc[p].pc = "ps_table_write"
    /\ tables' = [tables EXCEPT ![bproc[p].seen[1].table_id] = "available"]
    /\ bproc' = [bproc EXCEPT ![p] = finish(p, "ok", bproc[p].ret)]
    /\ UNCHANGED <<bills, health>>
    /\ UNCHANGED envVars
    /\ UNCHANGED orderVars

\* BillService.update_bill with a status (PUT /api/bills/{bill_id})
update_bill(b, st) ==
    /\ MatchedIndex(b) # 0
    /\ bills' = set_bill_status(b, st)
    /\ UNCHANGED <<tables, bproc, health>>
    /\ UNCHANGED envVars
    /\ UNCHANGED orderVars

(* create_table *)

\* the detail TableService.create_table gives the HTTPException it raises in place of
\* DuplicateKeyError
table_exists_detail == <<"Table number", "already exists">>

\* str(e) of an HTTPException: the status code and the detail
http_exception_str(status_code, detail) == <<status_code>> \o detail

\* the route's test: "duplicate key error" in str(e) or "E11000" in str(e)
is_duplicate_key_error(text) ==
    \E i \in DOMAIN text : text[i] \in {"duplicate key error", "E11000"}

\* the table document as the responses carry it
TableResponse(t, st) == [table_id |-> t, status |-> st]

\* POST /api/tables arrives; the table number n of the request is the number of the
\* table the model calls t ("T3" is table number 3)
call_create_table(p, t) ==
    /\ bproc[p].pc = "idle"
    /\ bproc' = [bproc EXCEPT ![p] = [BIdle EXCEPT !.pc = "ct_insert", !.op = "create_table",
                                                   !.arg = t]]
    /\ UNCHANGED <<tables, bills, health>>
    /\ UNCHANGED envVars
    /\ UNCHANGED orderVars

\* the route create_table: TableService.create_table inserts the new table, or the
\* unique index refuses it and the service raises HTTPException(400); the route looks
\* for the driver's words in str(e), re-fetches the existing table when it finds them,
\* and re-raises otherwise
create_table(p) ==
    /\ bproc[p].pc = "ct_insert"
    /\ LET t == bproc[p].arg
           duplicate == tables[t] # Absent
           text == http_exception_str("400", table_exists_detail)
       IN /\ tables' = IF duplicate THEN tables ELSE [tables EXCEPT ![t] = "available"]
          /\ bproc' = [bproc EXCEPT ![p] =
                IF ~duplicate THEN finish(p, "ok", <<TableResponse(t, "available")>>)
                ELSE IF is_duplicate_key_error(text)
                THEN finish(p, "ok", <<TableResponse(t, tables[t])>>)
                ELSE finish(p, "400", <<>>)]
    /\ UNCHANGED <<bills, health>>
    /\ UNCHANGED envVars
    /\ UNCHANGED orderVars

\* the response is sent and the request is over
bill_request_done(p) ==
    /\ bproc[p].pc = "done"
    /\ bproc' = [bproc EXCEPT ![p] = BIdle]
    /\ UNCHANGED <<tables, bills, health>>
    /\ UNCHANGED envVars
    /\ UNCHANGED orderVars

(* verify_bill_consistency and reconcile_bill *)

\* {item_id: item}: the item with this id, as a sequence of length 0 or 1
RECURSIVE find_item(_, _)
find_item(items, item_id) ==
    IF items = <<>> THEN <<>>
    ELSE IF Head(items).item_id = item_id THEN <<Head(items)>>
    ELSE find_item(Tail(items), item_id)

\* the item lists PUT /api/bills/{bill_id} is given in place of the order's: an item
\* more, an item less, another quantity, or the order's own items
ItemVariants(o) ==
    LET own == [k \in DOMAIN OrderItems[o] |->
                    [item_id |-> OrderItems[o][k].item_id, price |-> OrderItems[o][k].price,
                     quantity |-> OrderItems[o][k].quantity]]
    IN  { own,
          IF find_item(own, "soup") = <<>>
          THEN own \o << [item_id |-> "soup", price |-> 30, quantity |-> 1] >> ELSE own,
          <<>>,
          [k \in DOMAIN own |-> [own[k] EXCEPT !.quantity = @ + 1]] }

\* the totals PUT /api/bills/{bill_id} is given: the sum of the items, or another amount
TotalVariants(items) == {SumItems(items), SumItems(items) + 5}

\* BillService.update_bill with items and a total (PUT /api/bills/{bill_id})
update_bill_items(b, items, total) ==
    /\ MatchedIndex(b) # 0
    /\ bills' = [bills EXCEPT ![MatchedIndex(b)].items = items,
                              ![MatchedIndex(b)].total_amount = total]
    /\ UNCHANGED <<tables, bproc, health>>
    /\ UNCHANGED envVars
    /\ UNCHANGED orderVars

Issue(kind, id) == [kind |-> kind, id |-> id]

\* verify_bill_consistency, step 4: items missing from the bill, items missing from the
\* order, quantity mismatches
item_issues_NoExtraCheck(bill_items, order_items) ==
    {Issue("missing", order_items[k].item_id) :
        k \in {j \in DOMAIN order_items : find_item(bill_items, order_items[j].item_id) = <<>>}}
    \cup
    {Issue("quantity", bill_items[k].item_id) :
        k \in {j \in DOMAIN bill_items :
                 LET o_item == find_item(order_items, bill_items[j].item_id)
                 IN  o_item # <<>> /\ o_item[1].quantity # bill_items[j].quantity}}

item_issues(bill_items, order_items) ==
    {Issue("missing", order_items[k].item_id) :
        k \in {j \in DOMAIN order_items : find_item(bill_items, order_items[j].item_id) = <<>>}}
    \cup
    {Issue("extra", bill_items[k].item_id) :
        k \in {j \in DOMAIN bill_items : find_item(order_items, bill_items[j].item_id) = <<>>}}
    \cup
    {Issue("quantity", bill_items[k].item_id) :
        k \in {j \in DOMAIN bill_items :
                 LET o_item == find_item(order_items, bill_items[j].item_id)
                 IN  o_item # <<>> /\ o_item[1].quantity # bill_items[j].quantity}}

\* verify_bill_consistency, step 5: the catalog price of each bill item is compared with
\* the bill's; [issues, health]
RECURSIVE price_issues(_, _)
price_issues(bill_items, h) ==
    IF bill_items = <<>> THEN [issues |-> {}, health |-> h]
    ELSE LET got == fetch_menu_item_details(h, Head(bill_items).item_id)
             rest == price_issues(Tail(bill_items), got.health)
         IN  [issues |-> (IF got.ok /\ got.price # Head(bill_items).price
                          THEN {Issue("price", Head(bill_items).item_id)} ELSE {})
                         \cup rest.issues,
              health |-> rest.health]

\* verify_bill_consistency on the bill that was read: [verified, issues, order_exists, health]
verify_results(bill) ==
    LET o == bill.order_id
        got == fetch_order_details(o)
    IN  IF got.data = "none"
        THEN [verified |-> FALSE, issues |-> {Issue("order_not_found", o)},
              order_exists |-> FALSE, health |-> got.health]
        ELSE LET priced == price_issues(bill.items, got.health)
                 issues ==
                    (IF orders[o].table_id # bill.table_id
                     THEN {Issue("table", bill.table_id)} ELSE {})
                    \cup item_issues(bill.items, OrderItems[o])
                    \cup priced.issues
                    \cup (IF SumItems(bill.items) # bill.total_amount
                          THEN {Issue("total", "none")} ELSE {})
             IN  [verified |-> issues = {}, issues |-> issues,
                  order_exists |-> TRUE, health |-> priced.health]

BillNotFound == [verified |-> FALSE, issues |-> {Issue("bill_not_found", "none")},
                 order_exists |-> FALSE]

\* verify_bill_consistency(bill_id) is called
call_verify_bill_consistency(p, b) ==
    /\ bproc[p].pc = "idle"
    /\ bproc' = [bproc EXCEPT ![p] = [BIdle EXCEPT !.pc = "v_find", !.op = "verify", !.bill = b]]
    /\ UNCHANGED <<tables, bills, health>>
    /\ UNCHANGED envVars
    /\ UNCHANGED orderVars

\* reconcile_bill(bill_id, auto_fix) is called: it starts with verify_bill_consistency
call_reconcile_bill(p, b, auto_fix) ==
    /\ bproc[p].pc = "idle"
    /\ bproc' = [bproc EXCEPT ![p] = [BIdle EXCEPT !.pc = "v_find", !.op = "reconcile", !.bill = b,
                                                   !.arg = IF auto_fix THEN "auto_fix" ELSE "report"]]
    /\ UNCHANGED <<tables, bills, health>>
    /\ UNCHANGED envVars
    /\ UNCHANGED orderVars

\* verify_bill_consistency returns to its caller: reconcile_bill before its repair
\* (which stops when the bill is verified or auto_fix is off), reconcile_bill after its
\* repair, or the caller of verify_bill_consistency
verify_returns_IgnoresAutoFix(p, results) ==
    IF bproc[p].op = "reconcile" /\ bproc[p].prev = <<>>
    THEN IF results.verified
         THEN [bproc[p] EXCEPT !.pc = "done", !.res = "reconciled", !.ret = <<results>>,
                               !.prev = <<results>>]
         ELSE [bproc[p] EXCEPT !.pc = "rc_find", !.prev = <<results>>]
    ELSE [bproc[p] EXCEPT !.pc = "done", !.ret = <<results>>,
                          !.res = IF results.verified THEN "verified" ELSE "issues"]

verify_returns(p, results) ==
    IF bproc[p].op = "reconcile" /\ bproc[p].prev = <<>>
    THEN IF results.verified \/ bproc[p].arg # "auto_fix"
         THEN [bproc[p] EXCEPT !.pc = "done", !.ret = <<results>>, !.prev = <<results>>,
                               !.res = IF results.verified THEN "reconciled" ELSE "issues"]
         ELSE [bproc[p] EXCEPT !.pc = "rc_find", !.prev = <<results>>]
    ELSE [bproc[p] EXCEPT !.pc = "done", !.ret = <<results>>,
                          !.res = IF results.verified
                                  THEN (IF bproc[p].op = "reconcile" THEN "reconciled" ELSE "verified")
                                  ELSE "issues"]

\* verify_bill_consistency, step 1: find_one({"bill_id": b})
verify_find(p) ==
    /\ bproc[p].pc = "v_find"
    /\ LET bill == find_one_by_bill_id(bproc[p].bill) IN
       bproc' = [bproc EXCEPT ![p] =
            IF bill = <<>> THEN verify_returns(p, BillNotFound)
            ELSE [@ EXCEPT !.pc = "v_check", !.seen = bill]]
    /\ UNCHANGED <<tables, bills, health>>
    /\ UNCHANGED envVars
    /\ UNCHANGED orderVars

\* verify_bill_consistency, steps 2 to 5: the order and the catalog prices are fetched
\* and compared with the bill that was read
verify_check(p) ==
    /\ bproc[p].pc = "v_check"
    /\ LET results == verify_results(bproc[p].seen[1]) IN
       /\ health' = results.health
       /\ bproc' = [bproc EXCEPT ![p] =
            verify_returns(p, [verified |-> results.verified, issues |-> results.issues,
                               order_exists |-> results.order_exists])]
    /\ UNCHANGED <<tables, bills>>
    /\ UNCHANGED envVars
    /\ UNCHANGED orderVars

\* reconcile_bill: the fixed items, one per order item.  recalc is recalculate_total:
\* set by a changed quantity or an added item, not by a bill item that is dropped.
RECURSIVE reconcile_items(_, _, _)
reconcile_items(order_items, bill_items, h) ==
    IF order_items = <<>> THEN [items |-> <<>>, health |-> h, recalc |-> FALSE]
    ELSE LET order_item == Head(order_items)
             bill_item == find_item(bill_items, order_item.item_id)
         IN  IF bill_item # <<>>
             THEN LET rest == reconcile_items(Tail(order_items), bill_items, h)
                  IN  [items |-> << [bill_item[1] EXCEPT !.quantity = order_item.quantity] >>
                                 \o rest.items,
                       health |-> rest.health,
                       recalc |-> rest.recalc \/ bill_item[1].quantity # order_item.quantity]
             ELSE LET got == fetch_menu_item_details(h, order_item.item_id)
                      rest == reconcile_items(Tail(order_items), bill_items, got.health)
                  IN  [items |-> << [item_id |-> order_item.item_id,
                                     price |-> IF got.ok THEN got.price ELSE order_item.price,
                                     quantity |-> order_item.quantity] >> \o rest.items,
                       health |-> rest.health,
                       recalc |-> TRUE]

\* reconcile_bill: find_one({"bill_id": b}) after the first verification
reconcile_find(p) ==
    /\ bproc[p].pc = "rc_find"
    /\ LET bill == find_one_by_bill_id(bproc[p].bill) IN
       bproc' = [bproc EXCEPT ![p] =
            IF bill = <<>> THEN finish(p, "issues", <<BillNotFound>>)
            ELSE [@ EXCEPT !.pc = "rc_fix", !.seen = bill]]
    /\ UNCHANGED <<tables, bills, health>>
    /\ UNCHANGED envVars
    /\ UNCHANGED orderVars

\* reconcile_bill: the order is fetched and update_data is computed from the bill as
\* it was read; the total is a sequence of length 0 or 1
reconcile_fix(p) ==
    /\ bproc[p].pc = "rc_fix"
    /\ LET bill == bproc[p].seen[1]
           o == bill.order_id
           got == fetch_order_details(o)
           fixed == reconcile_items(OrderItems[o], bill.items, got.health)
           update_data ==
               [items |-> fixed.items,
                total_amount |-> IF fixed.recalc THEN <<SumItems(fixed.items)>> ELSE <<>>,
                table_id |-> IF orders[o].table_id # bill.table_id
                             THEN orders[o].table_id ELSE "none"]
       IN IF got.data = "none"
          THEN /\ health' = got.health
               /\ bproc' = [bproc EXCEPT ![p] =
                    finish(p, "issues", <<[verified |-> FALSE,
                                           issues |-> {Issue("order_not_found", o)},
                                           order_exists |-> FALSE]>>)]
          ELSE /\ health' = fixed.health
               /\ bproc' = [bproc EXCEPT ![p].pc = "rc_write", ![p].new = <<update_data>>]
    /\ UNCHANGED <<tables, bills>>
    /\ UNCHANGED envVars
    /\ UNCHANGED orderVars

\* update_one({"bill_id": b}, {"$set": update_data}) on the stored document
apply_reconcile(doc, update_data) ==
    [doc EXCEPT !.items = update_data.items,
                !.total_amount = IF update_data.total_amount = <<>> THEN @
                                 ELSE update_data.total_amount[1],
                !.table_id = IF update_data.table_id = "none" THEN @ ELSE update_data.table_id]

\* reconcile_bill: the write, then verify_bill_consistency again
reconcile_write(p) ==
    /\ bproc[p].pc = "rc_write"
    /\ LET i == MatchedIndex(bproc[p].bill) IN
       bills' = IF i = 0 THEN bills
                ELSE [bills EXCEPT ![i] = apply_reconcile(@, bproc[p].new[1])]
    /\ bproc' = [bproc EXCEPT ![p].pc = "v_find"]
    /\ UNCHANGED <<tables, health>>
    /\ UNCHANGED envVars
    /\ UNCHANGED orderVars

\* the client that got a bill from POST /api/bills posts the same order id again
retry_create(p) ==
    /\ bproc[p].pc = "done"
    /\ bproc[p].op = "create"
    /\ bproc[p].res = "ok"
    /\ bproc' = [bproc EXCEPT ![p] = [BIdle EXCEPT !.pc = "cb_find", !.op = "create",
                                                   !.order = bproc[p].order,
                                                   !.prev = bproc[p].ret]]
    /\ UNCHANGED <<tables, bills, health>>
    /\ UNCHANGED envVars
    /\ UNCHANGED orderVars

\* order_status_notification: the notification that was just processed is delivered
\* again; snap keeps the stores as the first processing left them
redeliver_notification(p) ==
    /\ bproc[p].pc = "done"
    /\ bproc[p].op = "notify"
    /\ bproc' = [bproc EXCEPT ![p] =
            [BIdle EXCEPT !.pc = "n_find", !.op = "notify", !.order = bproc[p].order,
                          !.nstatus = bproc[p].nstatus,
                          !.snap = IF bproc[p].snap = <<>>
                                   THEN << [bills |-> bills, tables |-> tables] >>
                                   ELSE bproc[p].snap]]
    /\ UNCHANGED <<tables, bills, health>>
    /\ UNCHANGED envVars
    /\ UNCHANGED orderVars

(* periodic_data_sync *)

RECURSIVE ActiveBillIds(_)
ActiveBillIds(docs) ==
    IF docs = <<>> THEN <<>>
    ELSE (IF Head(docs).status \in {"open", "final"} THEN <<Head(docs).bill_id>> ELSE <<>>)
         \o ActiveBillIds(Tail(docs))

DriverIdle == [BIdle EXCEPT !.pc = "d_scan", !.op = "driver"]

\* periodic_data_sync: a cycle starts, the open and final bills are listed
periodic_data_sync_scan ==
    /\ bproc[Driver].pc = "d_scan"
    /\ bproc' = [bproc EXCEPT ![Driver].pc = "d_next", ![Driver].queue = ActiveBillIds(bills)]
    /\ UNCHANGED <<tables, bills, health>>
    /\ UNCHANGED envVars
    /\ UNCHANGED orderVars

\* periodic_data_sync: the listing of the bills raises; the cycle-level handler logs it
\* and sleeps 30 seconds
periodic_data_sync_scan_raises ==
    /\ bproc[Driver].pc = "d_scan"
    /\ bproc' = [bproc EXCEPT ![Driver].pc = "d_backoff"]
    /\ UNCHANGED <<tables, bills, health>>
    /\ UNCHANGED envVars
    /\ UNCHANGED orderVars

\* periodic_data_sync: the backoff is over, the loop starts the next cycle
periodic_data_sync_backoff ==
    /\ bproc[Driver].pc = "d_backoff"
    /\ bproc' = [bproc EXCEPT ![Driver] = DriverIdle]
    /\ UNCHANGED <<tables, bills, health>>
    /\ UNCHANGED envVars
    /\ UNCHANGED orderVars

\* the driver's step after a bill if a refresh that reports issues ended the cycle
periodic_data_sync_next_AbortsOnIssues ==
    /\ bproc[Driver].pc = "d_next"
    /\ bproc' = [bproc EXCEPT ![Driver] =
            IF bproc[Driver].queue = <<>> \/ bproc[Driver].res = "issues" THEN DriverIdle
            ELSE [DriverIdle EXCEPT !.pc = "fr_find", !.bill = Head(bproc[Driver].queue),
                                    !.queue = Tail(bproc[Driver].queue)]]
    /\ UNCHANGED <<tables, bills, health>>
    /\ UNCHANGED envVars
    /\ UNCHANGED orderVars

\* periodic_data_sync: the next bill of the cycle is refreshed; after the last one the
\* driver sleeps and starts over
periodic_data_sync_next ==
    /\ bproc[Driver].pc = "d_next"
    /\ bproc' = [bproc EXCEPT ![Driver] =
            IF bproc[Driver].queue = <<>> THEN DriverIdle
            ELSE [DriverIdle EXCEPT !.pc = "fr_find", !.bill = Head(bproc[Driver].queue),
                                    !.queue = Tail(bproc[Driver].queue)]]
    /\ UNCHANGED <<tables, bills, health>>
    /\ UNCHANGED envVars
    /\ UNCHANGED orderVars

\* await ServiceIntegration.check_service_health(), by itself
call_check_service_health ==
    /\ health' = check_service_health(health, now)
    /\ UNCHANGED <<tables, bills, bproc>>
    /\ UNCHANGED envVars
    /\ UNCHANGED orderVars

\* whether the collaborator answers its /health with 200
answers(svc) == IF svc = "order_service" THEN orderUp ELSE menuUp

\* check_service_health, step by step: the call starts, current_time = time.time()
check_service_health_begin(p) ==
    /\ bproc[p].pc = "idle"
    /\ bproc' = [bproc EXCEPT ![p] = [BIdle EXCEPT !.pc = "csh_check", !.op = "health",
                                                   !.arg = "order_service", !.seen = <<now>>]]
    /\ UNCHANGED <<tables, bills, health>>
    /\ UNCHANGED envVars
    /\ UNCHANGED orderVars

\* check_service_health: current_time - last_check > HEALTH_CHECK_INTERVAL; when it
\* is, the GET /health is sent and the coroutine is suspended at the await
check_service_health_check(p) ==
    /\ bproc[p].pc = "csh_check"
    /\ bproc' = [bproc EXCEPT ![p] =
            IF bproc[p].seen[1] - health[bproc[p].arg].last_check > HEALTH_CHECK_INTERVAL
            THEN [@ EXCEPT !.pc = "csh_await"]
            ELSE IF bproc[p].arg = "order_service"
            THEN [@ EXCEPT !.arg = "menu_service"]
            ELSE finish(p, "ok", <<>>)]
    /\ UNCHANGED <<tables, bills, health>>
    /\ UNCHANGED envVars
    /\ UNCHANGED orderVars

\* check_service_health: the probe is answered or fails; the tracker is updated and
\* last_check = current_time
check_service_health_response(p) ==
    /\ bproc[p].pc = "csh_await"
    /\ LET svc == bproc[p].arg
           t == bproc[p].seen[1]
       IN health' = IF answers(svc)
                    THEN [health EXCEPT ![svc] = [available |-> TRUE, failure_count |-> 0,
                                                  last_check |-> t]]
                    ELSE [record_failure(health, svc) EXCEPT ![svc].last_check = t]
    /\ bproc' = [bproc EXCEPT ![p] =
            IF bproc[p].arg = "order_service"
            THEN [@ EXCEPT !.pc = "csh_check", !.arg = "menu_service"]
            ELSE finish(p, "ok", <<>>)]
    /\ UNCHANGED <<tables, bills>>
    /\ UNCHANGED envVars
    /\ UNCHANGED orderVars

(* Environment *)

order_service_flips ==
    /\ orderUp' = ~orderUp
    /\ UNCHANGED <<tables, bills, bproc, menuUp, menu, health, now>>
    /\ UNCHANGED orderVars

menu_service_flips ==
    /\ menuUp' = ~menuUp
    /\ UNCHANGED <<tables, bills, bproc, orderUp, menu, health, now>>
    /\ UNCHANGED orderVars

\* time.time() moves on by more than a health-check interval
time_passes ==
    /\ now < MaxTime
    /\ now' = now + HEALTH_CHECK_INTERVAL + 1
    /\ UNCHANGED <<tables, bills, bproc, orderUp, menuUp, menu, health>>
    /\ UNCHANGED orderVars

MenuPrices == {50, 60}

\* the menu service changes the price of an item
menu_price_changes(price) ==
    /\ menu["pasta"] # price
    /\ menu' = [menu EXCEPT !["pasta"] = price]
    /\ UNCHANGED <<tables, bills, bproc, orderUp, menuUp, health, now>>
    /\ UNCHANGED orderVars

-----------------------------------------------------------------------------
(* Initial states and specifications *)

\* time.time() at start-up is far from the last_check of 0 the tracker starts with
StartTime == RECOVERY_TIMEOUT + 1

InitOrderService ==
    /\ oproc = [p \in OProcs |-> OIdle]
    /\ item_status = [o \in Orders |-> NewItemStatus(o)]
    /\ notifs = [k \in NotifKeys |-> 0]
    /\ tbUp = TRUE

InitBillService ==
    /\ bproc = [p \in BProcs \cup {Driver} |-> IF p = Driver THEN DriverIdle ELSE BIdle]
    /\ bills = <<>>
    /\ health = [svc \in Services |-> [available |-> TRUE, last_check |-> 0, failure_count |-> 0]]
    /\ now = StartTime

\* The order service with two concurrent requests on one stored order: a status
\* update through update_order_status, and an update_order or a cancel_order.
InitOrder ==
    /\ InitOrderService
    /\ InitBillService
    /\ orders = [o \in Orders |-> IF o = "o1" THEN [status |-> "received", table_id |-> "T7"]
                                  ELSE NoOrder]
    /\ tables = [t \in Tables |-> "available"]
    /\ orderUp = TRUE
    /\ menuUp = TRUE
    /\ menu = [i \in MenuItems |-> 50]

NextOrder ==
    \/ \E s \in Status : call_update_order_status("r1", "o1", s, "update_order_status")
    \/ \E s \in Status : call_update_order_status("r2", "o1", s, "update_order")
    \/ \E p \in OProcs : update_order_status_get(p)
    \/ \E p \in OProcs : update_order_status_write(p)
    \/ \E p \in OProcs : update_order_status_notify(p)
    \/ \E p \in OProcs : update_order_status_return(p)
    \/ call_cancel_order("r2", "o1")
    \/ \E p \in OProcs : cancel_order_get(p)
    \/ \E p \in OProcs : cancel_order_notify(p)
    \/ \E p \in OProcs : order_request_done(p)
    \/ table_bill_service_flips

SpecOrder == InitOrder /\ [][NextOrder]_vars

\* The two entry points that validate and write a target status.
StatusOps == {"update_order_status", "update_order"}

AllOrderIdle == \A q \in OProcs : oproc[q].pc = "idle"

\* The order service serving one request at a time, from an empty order store.
InitOrderSeq ==
    /\ InitOrderService
    /\ InitBillService
    /\ orders = [o \in Orders |-> NoOrder]
    /\ tables = [t \in Tables |-> "available"]
    /\ orderUp = TRUE
    /\ menuUp = TRUE
    /\ menu = [i \in MenuItems |-> 50]

NextOrderSeq ==
    \/ \E p \in OProcs, o \in Orders : AllOrderIdle /\ create_order(p, o, "T7")
    \/ \E p \in OProcs : create_order_notify_table(p)
    \/ \E p \in OProcs, o \in Orders, s \in Status, op \in StatusOps :
            AllOrderIdle /\ call_update_order_status(p, o, s, op)
    \/ \E p \in OProcs : update_order_status_get(p)
    \/ \E p \in OProcs : update_order_status_write(p)
    \/ \E p \in OProcs : update_order_status_notify(p)
    \/ \E p \in OProcs : update_order_status_return(p)
    \/ \E p \in OProcs, o \in Orders : AllOrderIdle /\ call_cancel_order(p, o)
    \/ \E p \in OProcs : cancel_order_get(p)
    \/ \E p \in OProcs : cancel_order_notify(p)
    \/ \E p \in OProcs : order_request_done(p)
    \/ AllOrderIdle /\ table_bill_service_flips

SpecOrderSeq == InitOrderSeq /\ [][NextOrderSeq]_vars

\* The table/bill service with two concurrent requests, over a fixed order store.
InitBill ==
    /\ InitOrderService
    /\ InitBillService
    /\ orders = [o \in Orders |-> [status |-> "completed", table_id |-> "T7"]]
    /\ \E st \in {Absent, "available"} : tables = [t \in Tables |-> IF t = "T7" THEN st ELSE "available"]
    /\ orderUp = TRUE
    /\ menuUp = TRUE
    /\ menu = [i \in MenuItems |-> 50]

NextBill ==
    \/ \E p \in BProcs, o \in Orders : call_create_bill_from_order(p, o)
    \/ \E p \in BProcs : create_bill_find_existing(p)
    \/ \E p \in BProcs : create_bill_fetch_order(p)
    \/ \E p \in BProcs : create_bill_prices(p)
    \/ \E p \in BProcs : create_bill_table_find(p)
    \/ \E p \in BProcs : create_bill_table_write(p)
    \/ \E p \in BProcs : create_bill_insert(p)
    \/ \E p \in BProcs : create_bill_reread(p)
    \/ \E p \in BProcs, o \in Orders : post_notification(p, o, "completed")
    \/ \E p \in BProcs : notification_find(p)
    \/ \E p \in BProcs, b \in BillIds, ps \in PaymentInputs : call_update_payment_status(p, b, ps)
    \/ \E p \in BProcs : update_payment_status_find(p)
    \/ \E p \in BProcs : update_payment_status_write(p)
    \/ \E p \in BProcs : update_payment_status_reread(p)
    \/ \E p \in BProcs : update_payment_status_count(p)
    \/ \E p \in BProcs : update_payment_status_table_find(p)
    \/ \E p \in BProcs : update_payment_status_table_write(p)
    \/ \E p \in BProcs : bill_request_done(p)

SpecBill == InitBill /\ [][NextBill]_vars

AllBillIdle == \A q \in BProcs : bproc[q].pc = "idle"

\* The table/bill service serving one request at a time: bills are created and paid,
\* a creation is repeated, and the order service comes and goes.
InitBillSeq ==
    /\ InitOrderService
    /\ InitBillService
    /\ orders = [o \in Orders |-> [status |-> "completed", table_id |-> "T7"]]
    /\ \E st \in {Absent, "available"} : tables = [t \in Tables |-> IF t = "T7" THEN st ELSE "available"]
    /\ orderUp = TRUE
    /\ menuUp = TRUE
    /\ menu = [i \in MenuItems |-> 50]

NextBillSeq ==
    \/ \E p \in BProcs, o \in Orders : AllBillIdle /\ call_create_bill_from_order(p, o)
    \/ \E p \in BProcs : create_bill_find_existing(p)
    \/ \E p \in BProcs : create_bill_fetch_order(p)
    \/ \E p \in BProcs : create_bill_prices(p)
    \/ \E p \in BProcs : create_bill_table_find(p)
    \/ \E p \in BProcs : create_bill_table_write(p)
    \/ \E p \in BProcs : create_bill_insert(p)
    \/ \E p \in BProcs : create_bill_reread(p)
    \/ \E p \in BProcs : retry_create(p)
    \/ \E p \in BProcs, b \in BillIds, ps \in PaymentInputs :
            AllBillIdle /\ call_update_payment_status(p, b, ps)
    \/ \E p \in BProcs : update_payment_status_find(p)
    \/ \E p \in BProcs : update_payment_status_write(p)
    \/ \E p \in BProcs : update_payment_status_reread(p)
    \/ \E p \in BProcs : update_payment_status_count(p)
    \/ \E p \in BProcs : update_payment_status_table_find(p)
    \/ \E p \in BProcs : update_payment_status_table_write(p)
    \/ \E p \in BProcs : bill_request_done(p)
    \/ order_service_flips
    \/ time_passes

SpecBillSeq == InitBillSeq /\ [][NextBillSeq]_vars

\* The notification endpoint serving one notification at a time, each of them possibly
\* delivered again; between notifications bills are reopened or closed through
\* update_bill, the menu changes its prices, the order service comes and goes and
\* time passes.
InitNotify ==
    /\ InitOrderService
    /\ InitBillService
    /\ orders = [o \in Orders |-> IF o = "o1" THEN [status |-> "completed", table_id |-> "T7"]
                                  ELSE [status |-> "delivered", table_id |-> "T7"]]
    /\ tables = [t \in Tables |-> "available"]
    /\ orderUp = TRUE
    /\ menuUp = TRUE
    /\ menu = [i \in MenuItems |-> 50]

NextNotify ==
    \/ \E p \in BProcs, o \in Orders, s \in NotifiedStatuses :
            AllBillIdle /\ post_notification(p, o, s)
    \/ \E p \in BProcs : notification_find(p)
    \/ \E p \in BProcs : create_bill_find_existing(p)
    \/ \E p \in BProcs : create_bill_fetch_order(p)
    \/ \E p \in BProcs : create_bill_prices(p)
    \/ \E p \in BProcs : create_bill_table_find(p)
    \/ \E p \in BProcs : create_bill_table_write(p)
    \/ \E p \in BProcs : create_bill_insert(p)
    \/ \E p \in BProcs : create_bill_reread(p)
    \/ \E p \in BProcs : notification_cancel_write(p)
    \/ \E p \in BProcs : force_refresh_find(p)
    \/ \E p \in BProcs : force_refresh_fetch_order(p)
    \/ \E p \in BProcs : force_refresh_prices(p)
    \/ \E p \in BProcs : force_refresh_write(p)
    \/ \E p \in BProcs : notification_final_write(p)
    \/ \E p \in BProcs : redeliver_notification(p)
    \/ \E p \in BProcs : bill_request_done(p)
    \/ \E b \in BillIds, st \in BillStatusInputs : AllBillIdle /\ update_bill(b, st)
    \/ \E price \in MenuPrices : AllBillIdle /\ menu_price_changes(price)
    \/ AllBillIdle /\ order_service_flips
    \/ AllBillIdle /\ time_passes

SpecNotify == InitNotify /\ [][NextNotify]_vars

\* Both services and the periodic driver: one order is completed by a client, once, while the
\* table/bill service comes and goes; the notification, if it gets through, is handled,
\* and the driver keeps refreshing the bills it finds.
InitLive ==
    /\ InitOrderService
    /\ InitBillService
    /\ orders = [o \in Orders |-> IF o = "o1" THEN [status |-> "delivered", table_id |-> "T7"]
                                  ELSE NoOrder]
    /\ tables = [t \in Tables |-> "available"]
    /\ orderUp = TRUE
    /\ menuUp = TRUE
    /\ menu = [i \in MenuItems |-> 50]

\* the steps of a running order-service request
OrderSteps ==
    \/ update_order_status_get("r1")
    \/ update_order_status_write("r1")
    \/ update_order_status_notify("r1")
    \/ update_order_status_return("r1")
    \/ order_request_done("r1")

\* the notification is delivered and handled
NotificationSteps ==
    \/ \E o \in Orders, s \in NotifiedStatuses : receive_notification("b1", o, s)
    \/ notification_find("b1")
    \/ create_bill_find_existing("b1")
    \/ create_bill_fetch_order("b1")
    \/ create_bill_prices("b1")
    \/ create_bill_table_find("b1")
    \/ create_bill_table_write("b1")
    \/ create_bill_insert("b1")
    \/ create_bill_reread("b1")
    \/ bill_request_done("b1")

\* periodic_data_sync and the refreshes it runs
DriverSteps ==
    \/ periodic_data_sync_scan
    \/ periodic_data_sync_next
    \/ force_refresh_find(Driver)
    \/ force_refresh_fetch_order(Driver)
    \/ force_refresh_prices(Driver)
    \/ force_refresh_write(Driver)

\* the table/bill service comes back
table_bill_service_recovers == ~tbUp /\ table_bill_service_flips

NextLive ==
    \/ /\ orders["o1"].status = "delivered"
       /\ call_update_order_status("r1", "o1", "completed", "update_order_status")
    \/ OrderSteps
    \/ NotificationSteps
    \/ DriverSteps
    \/ table_bill_service_flips

\* Requests that run keep running, a delivered notification is handled, the driver
\* keeps cycling and an outage of the table/bill service ends; clients and outages
\* come as they please.
SpecLive ==
    /\ InitLive
    /\ [][NextLive]_vars
    /\ WF_vars(OrderSteps)
    /\ WF_vars(NotificationSteps)
    /\ WF_vars(DriverSteps)
    /\ WF_vars(table_bill_service_recovers)

\* POST /api/bills served one call at a time, for a completed order and for an order
\* that is absent, still in progress or completed; between calls the order service and
\* the menu service come and go, the menu changes a price and time passes.
CreateStatuses == {Absent, "in-progress", "completed"}

InitCreate ==
    /\ InitOrderService
    /\ InitBillService
    /\ \E s \in CreateStatuses :
         orders = [o \in Orders |->
                     IF o = "o1" THEN [status |-> "completed", table_id |-> "T7"]
                     ELSE IF s = Absent THEN NoOrder
                     ELSE [status |-> s, table_id |-> "T7"]]
    /\ tables = [t \in Tables |-> "available"]
    /\ orderUp = TRUE
    /\ menuUp = TRUE
    /\ menu = [i \in MenuItems |-> 50]

NextCreate ==
    \/ \E p \in BProcs, o \in Orders : AllBillIdle /\ call_create_bill_from_order(p, o)
    \/ \E p \in BProcs : create_bill_find_existing(p)
    \/ \E p \in BProcs : create_bill_fetch_order(p)
    \/ \E p \in BProcs : create_bill_prices(p)
    \/ \E p \in BProcs : create_bill_table_find(p)
    \/ \E p \in BProcs : create_bill_table_write(p)
    \/ \E p \in BProcs : create_bill_insert(p)
    \/ \E p \in BProcs : create_bill_reread(p)
    \/ \E p \in BProcs : bill_request_done(p)
    \/ AllBillIdle /\ order_service_flips
    \/ AllBillIdle /\ menu_service_flips
    \/ \E price \in MenuPrices : AllBillIdle /\ menu_price_changes(price)
    \/ AllBillIdle /\ time_passes

SpecCreate == InitCreate /\ [][NextCreate]_vars

\* The consistency checks, one request at a time: order o1 has the bill
\* create_bill_from_order stored for it and order o2 has none; PUT /api/bills/{bill_id} replaces a bill's items
\* and total, the menu changes a price and the other services come and go between
\* calls of verify_bill_consistency and reconcile_bill.
StoredBill(o) ==
    [bill_id |-> BillId(o), order_id |-> o, table_id |-> "T7",
     items |-> [k \in DOMAIN OrderItems[o] |->
                  [item_id |-> OrderItems[o][k].item_id, price |-> OrderItems[o][k].price,
                   quantity |-> OrderItems[o][k].quantity]],
     total_amount |-> SumItems(OrderItems[o]),
     status |-> "final", payment_status |-> "pending"]

InitReconcile ==
    /\ InitOrderService
    /\ bproc = [p \in BProcs \cup {Driver} |-> IF p = Driver THEN DriverIdle ELSE BIdle]
    /\ health = [svc \in Services |-> [available |-> TRUE, last_check |-> 0, failure_count |-> 0]]
    /\ now = StartTime
    /\ orders = [o \in Orders |-> [status |-> "completed", table_id |-> "T7"]]
    /\ bills = <<StoredBill("o1")>>
    /\ tables = [t \in Tables |-> IF t = "T7" THEN "occupied" ELSE "available"]
    /\ orderUp = TRUE
    /\ menuUp = TRUE
    /\ menu = [i \in MenuItems |-> 50]

NextReconcile ==
    \/ \E p \in BProcs, b \in BillIds : AllBillIdle /\ call_verify_bill_consistency(p, b)
    \/ \E p \in BProcs, b \in BillIds, auto_fix \in BOOLEAN :
            AllBillIdle /\ call_reconcile_bill(p, b, auto_fix)
    \/ \E p \in BProcs : verify_find(p)
    \/ \E p \in BProcs : verify_check(p)
    \/ \E p \in BProcs : reconcile_find(p)
    \/ \E p \in BProcs : reconcile_fix(p)
    \/ \E p \in BProcs : reconcile_write(p)
    \/ \E p \in BProcs : bill_request_done(p)
    \/ \E o \in Orders : \E items \in ItemVariants(o) : \E total \in TotalVariants(items) :
            AllBillIdle /\ update_bill_items(BillId(o), items, total)
    \/ AllBillIdle /\ order_service_flips
    \/ AllBillIdle /\ menu_service_flips
    \/ \E price \in MenuPrices : AllBillIdle /\ menu_price_changes(price)
    \/ AllBillIdle /\ time_passes

SpecReconcile == InitReconcile /\ [][NextReconcile]_vars

\* force_refresh_from_services, one request at a time, on the bill of an order whose
\* status has moved since the bill was stored; PUT /api/bills/{bill_id} sets the bill's
\* status between the calls.
RefreshStatuses == {"in-progress", "delivered", "completed", "cancelled"}

InitRefreshSeq ==
    /\ InitOrderService
    /\ bproc = [p \in BProcs \cup {Driver} |-> IF p = Driver THEN DriverIdle ELSE BIdle]
    /\ health = [svc \in Services |-> [available |-> TRUE, last_check |-> 0, failure_count |-> 0]]
    /\ now = StartTime
    /\ \E s \in RefreshStatuses :
         orders = [o \in Orders |-> [status |-> IF o = "o1" THEN s ELSE "completed",
                                     table_id |-> "T7"]]
    /\ bills = <<StoredBill("o1")>>
    /\ tables = [t \in Tables |-> IF t = "T7" THEN "occupied" ELSE "available"]
    /\ orderUp = TRUE
    /\ menuUp = TRUE
    /\ menu = [i \in MenuItems |-> 50]

NextRefreshSeq ==
    \/ \E p \in BProcs, b \in BillIds : AllBillIdle /\ call_force_refresh(p, b)
    \/ \E p \in BProcs : force_refresh_find(p)
    \/ \E p \in BProcs : force_refresh_fetch_order(p)
    \/ \E p \in BProcs : force_refresh_prices(p)
    \/ \E p \in BProcs : force_refresh_write(p)
    \/ \E p \in BProcs : bill_request_done(p)
    \/ \E b \in BillIds, st \in BillStatusInputs : AllBillIdle /\ update_bill(b, st)
    \/ AllBillIdle /\ order_service_flips
    \/ AllBillIdle /\ menu_service_flips
    \/ \E price \in MenuPrices : AllBillIdle /\ menu_price_changes(price)
    \/ AllBillIdle /\ time_passes

SpecRefreshSeq == InitRefreshSeq /\ [][NextRefreshSeq]_vars

\* force_refresh_from_services, one request at a time, when the order of the stored
\* bill may be gone from the order store and the bill of the other order is missing.
InitRefreshGone ==
    /\ InitOrderService
    /\ bproc = [p \in BProcs \cup {Driver} |-> IF p = Driver THEN DriverIdle ELSE BIdle]
    /\ health = [svc \in Services |-> [available |-> TRUE, last_check |-> 0, failure_count |-> 0]]
    /\ now = StartTime
    /\ \E gone \in BOOLEAN :
         orders = [o \in Orders |-> IF o = "o1" /\ gone THEN NoOrder
                                    ELSE [status |-> "completed", table_id |-> "T7"]]
    /\ bills = <<StoredBill("o1")>>
    /\ tables = [t \in Tables |-> IF t = "T7" THEN "occupied" ELSE "available"]
    /\ orderUp = TRUE
    /\ menuUp = TRUE
    /\ menu = [i \in MenuItems |-> 50]

SpecRefreshGone == InitRefreshGone /\ [][NextRefreshSeq]_vars

\* Two force_refresh_from_services requests on the bill of one order, step by step,
\* while the menu service comes and goes and changes a price.
InitRefresh ==
    /\ InitOrderService
    /\ bproc = [p \in BProcs \cup {Driver} |-> IF p = Driver THEN DriverIdle ELSE BIdle]
    /\ health = [svc \in Services |-> [available |-> TRUE, last_check |-> 0, failure_count |-> 0]]
    /\ now = StartTime
    /\ orders = [o \in Orders |-> [status |-> "completed", table_id |-> "T7"]]
    /\ bills = <<StoredBill("o1")>>
    /\ tables = [t \in Tables |-> IF t = "T7" THEN "occupied" ELSE "available"]
    /\ orderUp = TRUE
    /\ menuUp = TRUE
    /\ menu = [i \in MenuItems |-> 50]

NextRefresh ==
    \/ \E p \in BProcs : call_force_refresh(p, BillId("o1"))
    \/ \E p \in BProcs : force_refresh_find(p)
    \/ \E p \in BProcs : force_refresh_fetch_order(p)
    \/ \E p \in BProcs : force_refresh_prices(p)
    \/ \E p \in BProcs : force_refresh_write(p)
    \/ \E p \in BProcs : bill_request_done(p)
    \/ menu_service_flips
    \/ \E price \in MenuPrices : menu_price_changes(price)
    \/ time_passes

SpecRefresh == InitRefresh /\ [][NextRefresh]_vars

\* The health tracker under every caller: two concurrent refreshes of one bill while
\* both collaborators come and go and time passes between any two steps.
NextTracker ==
    \/ NextRefresh
    \/ order_service_flips

SpecTracker == InitRefresh /\ [][NextTracker]_vars

\* force_refresh_from_services, one request at a time, on a bill whose items
\* PUT /api/bills/{bill_id} replaces between the calls, while the menu service comes
\* and goes and changes a price.
InitRefreshItems ==
    /\ InitOrderService
    /\ bproc = [p \in BProcs \cup {Driver} |-> IF p = Driver THEN DriverIdle ELSE BIdle]
    /\ health = [svc \in Services |-> [available |-> TRUE, last_check |-> 0, failure_count |-> 0]]
    /\ now = StartTime
    /\ orders = [o \in Orders |-> [status |-> "completed", table_id |-> "T7"]]
    /\ bills = <<StoredBill("o1")>>
    /\ tables = [t \in Tables |-> IF t = "T7" THEN "occupied" ELSE "available"]
    /\ orderUp = TRUE
    /\ menuUp = TRUE
    /\ menu = [i \in MenuItems |-> 50]

NextRefreshItems ==
    \/ \E p \in BProcs, b \in BillIds : AllBillIdle /\ call_force_refresh(p, b)
    \/ \E p \in BProcs : force_refresh_find(p)
    \/ \E p \in BProcs : force_refresh_fetch_order(p)
    \/ \E p \in BProcs : force_refresh_prices(p)
    \/ \E p \in BProcs : force_refresh_write(p)
    \/ \E p \in BProcs : bill_request_done(p)
    \/ \E o \in Orders : \E items \in ItemVariants(o) : \E total \in TotalVariants(items) :
            AllBillIdle /\ update_bill_items(BillId(o), items, total)
    \/ AllBillIdle /\ menu_service_flips
    \/ \E price \in MenuPrices : AllBillIdle /\ menu_price_changes(price)
    \/ AllBillIdle /\ time_passes

SpecRefreshItems == InitRefreshItems /\ [][NextRefreshItems]_vars

\* The periodic driver alone: both orders have a stored bill, the listing of the bills
\* may raise, the order service comes and goes and PUT /api/bills/{bill_id} changes the
\* status of a bill.
InitDriver ==
    /\ InitOrderService
    /\ bproc = [p \in BProcs \cup {Driver} |-> IF p = Driver THEN DriverIdle ELSE BIdle]
    /\ health = [svc \in Services |-> [available |-> TRUE, last_check |-> 0, failure_count |-> 0]]
    /\ now = StartTime
    /\ orders = [o \in Orders |-> [status |-> "completed", table_id |-> "T7"]]
    /\ bills = <<StoredBill("o1"), StoredBill("o2")>>
    /\ tables = [t \in Tables |-> IF t = "T7" THEN "occupied" ELSE "available"]
    /\ orderUp = TRUE
    /\ menuUp = TRUE
    /\ menu = [i \in MenuItems |-> 50]

\* the steps the driver takes by itself once a cycle has its list of bills
DriverCycleSteps ==
    \/ periodic_data_sync_next
    \/ periodic_data_sync_backoff
    \/ force_refresh_find(Driver)
    \/ force_refresh_fetch_order(Driver)
    \/ force_refresh_prices(Driver)
    \/ force_refresh_write(Driver)

NextDriver ==
    \/ periodic_data_sync_scan
    \/ periodic_data_sync_scan_raises
    \/ DriverCycleSteps
    \/ \E b \in BillIds, st \in BillStatusInputs : update_bill(b, st)
    \/ order_service_flips
    \/ time_passes

\* The event loop keeps running the driver task; the listing of the bills does not
\* raise for ever.
SpecDriver ==
    /\ InitDriver
    /\ [][NextDriver]_vars
    /\ WF_vars(DriverCycleSteps)
    /\ SF_vars(periodic_data_sync_scan)

\* The health probes alone: check_service_health is called while time passes and the
\* two collaborators come and go.
InitHealth ==
    /\ InitOrderService
    /\ InitBillService
    /\ orders = [o \in Orders |-> NoOrder]
    /\ tables = [t \in Tables |-> "available"]
    /\ orderUp = TRUE
    /\ menuUp = TRUE
    /\ menu = [i \in MenuItems |-> 50]

NextHealth ==
    \/ call_check_service_health
    \/ order_service_flips
    \/ menu_service_flips
    \/ time_passes

SpecHealth == InitHealth /\ [][NextHealth]_vars

\* The health tracker under concurrent requests: each request runs
\* check_service_health and is suspended while its probe is in flight.
NextHealthCalls ==
    \/ \E p \in BProcs : check_service_health_begin(p)
    \/ \E p \in BProcs : check_service_health_check(p)
    \/ \E p \in BProcs : check_service_health_response(p)
    \/ \E p \in BProcs : bill_request_done(p)
    \/ order_service_flips
    \/ menu_service_flips
    \/ time_passes

SpecHealthCalls == InitHealth /\ [][NextHealthCalls]_vars

\* The table store: each table exists (available or occupied) or not, and tables are
\* created by concurrent requests.
InitTables ==
    /\ InitOrderService
    /\ InitBillService
    /\ orders = [o \in Orders |-> NoOrder]
    /\ tables \in [Tables -> {Absent, "available", "occupied"}]
    /\ orderUp = TRUE
    /\ menuUp = TRUE
    /\ menu = [i \in MenuItems |-> 50]

NextTables ==
    \/ \E p \in BProcs, t \in Tables : call_create_table(p, t)
    \/ \E p \in BProcs : create_table(p)
    \/ \E p \in BProcs : bill_request_done(p)

SpecTables == InitTables /\ [][NextTables]_vars

\* The happy path: every service answers, the tables exist, the catalog holds the
\* prices the orders were placed at. A client creates orders, moves them through the
\* statuses, asks for the bill of an order that exists and pays it, one request at a
\* time; the notification of a status change is handled before the next request, and
\* the periodic driver runs beside the requests.
HappyStatuses == {"in-progress", "ready", "delivered", "completed"}

Quiet ==
    /\ oproc["r1"].pc = "idle"
    /\ bproc["b1"].pc = "idle"
    /\ \A k \in NotifKeys : notifs[k] = 0

InitHappy ==
    /\ InitOrderService
    /\ InitBillService
    /\ orders = [o \in Orders |-> NoOrder]
    /\ tables = [t \in Tables |-> "available"]
    /\ orderUp = TRUE
    /\ menuUp = TRUE
    /\ menu = [i \in MenuItems |-> IF i = "soup" THEN 30 ELSE 50]

PaymentSteps ==
    \/ update_payment_status_find("b1")
    \/ update_payment_status_write("b1")
    \/ update_payment_status_reread("b1")
    \/ update_payment_status_count("b1")
    \/ update_payment_status_table_find("b1")
    \/ update_payment_status_table_write("b1")

NextHappy ==
    \/ \E o \in Orders, t \in Tables : Quiet /\ create_order("r1", o, t)
    \/ create_order_notify_table("r1")
    \/ \E o \in Orders, s \in HappyStatuses :
            Quiet /\ call_update_order_status("r1", o, s, "update_order_status")
    \/ OrderSteps
    \/ NotificationSteps
    \/ \E o \in Orders :
            Quiet /\ orders[o].status # Absent /\ call_create_bill_from_order("b1", o)
    \/ \E b \in BillIds : Quiet /\ call_update_payment_status("b1", b, "paid")
    \/ PaymentSteps
    \/ DriverSteps

SpecHappy == InitHappy /\ [][NextHappy]_vars

\* Payments beside the periodic driver: the bill of order o1 is stored as
\* create_bill_from_order wrote it, a client pays it, the catalog changes a price,
\* and the driver keeps running its cycles.
NextPaid ==
    \/ \E b \in BillIds : call_update_payment_status("b1", b, "paid")
    \/ PaymentSteps
    \/ bill_request_done("b1")
    \/ DriverSteps
    \/ \E price \in MenuPrices : menu_price_changes(price)

SpecPaid == InitRefreshSeq /\ [][NextPaid]_vars

\* The order store, one request at a time: both orders are stored in some status;
\* orders are deleted and created, and line items are updated.
ItemStatusInputs == {"in-progress", "cancelled"}

InitOrderStore ==
    /\ InitOrderService
    /\ InitBillService
    /\ \E s \in Status : orders = [o \in Orders |-> [status |-> s, table_id |-> "T7"]]
    /\ tables = [t \in Tables |-> "available"]
    /\ orderUp = TRUE
    /\ menuUp = TRUE
    /\ menu = [i \in MenuItems |-> 50]

NextOrderStore ==
    \/ \E p \in OProcs, o \in Orders, chars \in TableIdInputs, item_count \in {0, 1},
          storage_ok \in BOOLEAN :
            AllOrderIdle /\ create_order_route(p, o, chars, item_count, storage_ok)
    \/ \E p \in OProcs : create_order_notify_table(p)
    \/ \E p \in OProcs, o \in Orders, item_id \in MenuItems, status \in ItemStatusInputs :
            AllOrderIdle /\ call_update_order_item(p, o, item_id, status)
    \/ \E p \in OProcs : update_order_item_check(p)
    \/ \E p \in OProcs : update_order_item_get(p)
    \/ \E p \in OProcs : update_order_item_write(p)
    \/ \E p \in OProcs, o \in Orders : AllOrderIdle /\ call_delete_order(p, o)
    \/ \E p \in OProcs : delete_order_get(p)
    \/ \E p \in OProcs : delete_order_write(p)
    \/ \E p \in OProcs : order_request_done(p)

SpecOrderStore == InitOrderStore /\ [][NextOrderStore]_vars

-----------------------------------------------------------------------------
(* Properties *)

\* The allowed-transition table as the specification states it (section 4.1)
AllowedTable ==
    [s \in Status |->
        CASE s = "received"    -> {"in-progress", "received"}
          [] s = "in-progress" -> {"ready", "paused", "in-progress"}
          [] s = "paused"      -> {"in-progress", "paused"}
          [] s = "ready"       -> {"delivered", "ready"}
          [] s = "delivered"   -> {"completed", "delivered"}
          [] s = "completed"   -> {}
          [] s = "cancelled"   -> {}]

\* an edge of the transition graph: a table edge, or cancellation from a non-completed state
TransitionGraph(a, b) == b \in AllowedTable[a] \/ (b = "cancelled" /\ a # "completed")

\* a finished request of the order service that validated the pair (cur, req)
ValidatedStatus(p) ==
    /\ oproc[p].pc = "done"
    /\ oproc[p].op \in StatusOps
    /\ oproc[p].cur # "none"

C4_StatusChangesFollowGraph ==
    [][\A o \in Orders :
         (orders[o].status # Absent /\ orders'[o].status # orders[o].status)
         => TransitionGraph(orders[o].status, orders'[o].status)]_vars

\* C5: cancel_order on an order in a status other than completed succeeds and leaves
\* the order cancelled, also when the order was cancelled already; on a completed order
\* it fails and the status stays completed.
C5_CancelOrder ==
    \A p \in OProcs :
        (oproc[p].pc = "done" /\ oproc[p].op = "cancel_order" /\ oproc[p].cur # "none")
        => IF oproc[p].cur = "completed"
           THEN /\ oproc[p].res # "ok"
                /\ orders[oproc[p].order].status = "completed"
           ELSE /\ oproc[p].res = "ok"
                /\ oproc[p].ret = "cancelled"
                /\ orders[oproc[p].order].status = "cancelled"

\* C5 witness: cancel_order has returned for an order that was cancelled already
C5_Witness ==
    \E p \in OProcs :
        /\ oproc[p].pc = "done"
        /\ oproc[p].op = "cancel_order"
        /\ oproc[p].cur = "cancelled"
        /\ oproc[p].res = "ok"

\* C10: when the notification of a move to completed or cancelled fails, the call
\* returns the updated order without error and the stored status is the new status.
C10_NotificationFailureIsSwallowed ==
    \A p \in OProcs :
        (oproc[p].pc = "done" /\ oproc[p].op \in StatusOps /\ oproc[p].nfail)
        => /\ oproc[p].res = "ok"
           /\ oproc[p].ret = oproc[p].req
           /\ orders[oproc[p].order].status = oproc[p].req

\* C10 witness: an order was moved to completed while the table/bill service was down
C10_Witness ==
    \E p \in OProcs :
        /\ oproc[p].pc = "done"
        /\ oproc[p].op = "update_order_status"
        /\ oproc[p].req = "completed"
        /\ oproc[p].nfail
        /\ ~tbUp
        /\ orders[oproc[p].order].status = "completed"

\* the bills the store holds for an order
BillsOf(o) == {i \in DOMAIN bills : bills[i].order_id = o}

\* C1: under any interleaving of concurrent create_bill_from_order calls for one order
\* (POST /api/bills and the notification handler) the store holds at most one bill for
\* the order, and every call that returns a bill returns the bill "bill-<order_id>".
C1_OneBillPerOrder ==
    /\ \A o \in Orders : Cardinality(BillsOf(o)) <= 1
    /\ \A p \in BProcs :
         (bproc[p].pc = "done" /\ bproc[p].op \in {"create", "notify"} /\ bproc[p].ret # <<>>)
         => /\ bproc[p].ret[1].bill_id = BillId(bproc[p].order)
            /\ bproc[p].ret[1].order_id = bproc[p].order

\* C1 witness: two calls for one order both passed the existence check, both built a
\* new document, and both have returned a bill
C1_Witness ==
    \E p \in BProcs, q \in BProcs :
        /\ p # q
        /\ bproc[p].pc = "done" /\ bproc[q].pc = "done"
        /\ bproc[p].op = "create" /\ bproc[q].op = "notify"
        /\ bproc[p].order = bproc[q].order
        /\ bproc[p].new # <<>> /\ bproc[q].new # <<>>
        /\ bproc[p].res = "ok" /\ bproc[q].res = "ok"
        /\ Cardinality(BillsOf(bproc[p].order)) = 1

\* C2: create_bill_from_order called a second time, in sequence, with the same completed
\* order id returns the bill the first call returned, the stored bill is that same
\* bill, and the store holds exactly one bill for the order.
C2_SecondCreateReturnsSameBill ==
    \A p \in BProcs :
        (bproc[p].pc = "done" /\ bproc[p].op = "create" /\ bproc[p].prev # <<>>)
        => /\ bproc[p].res = "ok"
           /\ bproc[p].ret = bproc[p].prev
           /\ find_one_by_order(bproc[p].order) = bproc[p].prev
           /\ Cardinality(BillsOf(bproc[p].order)) = 1

\* C2 witness: the second call has returned while the order service was unreachable
C2_Witness ==
    \E p \in BProcs :
        /\ bproc[p].pc = "done"
        /\ bproc[p].op = "create"
        /\ bproc[p].prev # <<>>
        /\ bproc[p].res = "ok"
        /\ ~orderUp

\* the bills of a table
BillsAt(t) == {i \in DOMAIN bills : bills[i].table_id = t}

\* C6: after update_payment_status marks a bill paid, the table stays occupied while
\* another bill of the table is unpaid, and the table is available once every bill of
\* the table is paid.
C6_TableFreedByLastPayment ==
    \A p \in BProcs :
        (/\ bproc[p].pc = "done"
         /\ bproc[p].op = "pay"
         /\ bproc[p].arg = "paid"
         /\ bproc[p].res = "ok"
         /\ tables[bproc[p].seen[1].table_id] # Absent)
        => LET t == bproc[p].seen[1].table_id IN
           IF \A i \in BillsAt(t) : bills[i].payment_status = "paid"
           THEN tables[t] = "available"
           ELSE tables[t] = "occupied"

\* C7: whenever update_payment_status writes available to a table, no other bill of the
\* table has status open or final at the moment of the write.
C7_NoPrematureRelease ==
    [][\A p \in BProcs :
         (bproc[p].pc = "ps_table_write" /\ bproc'[p].pc = "done")
         => active_bill_count(bproc[p].seen[1].table_id, bproc[p].bill) = 0]_vars

\* C9: a notification delivered again, with the collaborators as they were, leaves the
\* bill store and the table store as the first processing left them; no order ever has
\* two bills; and a completed notification for a completed order that the order service
\* serves ends with the order's bill in the store.
C9_NotificationIdempotent ==
    /\ \A o \in Orders : Cardinality(BillsOf(o)) <= 1
    /\ \A p \in BProcs :
         (bproc[p].pc = "done" /\ bproc[p].op = "notify")
         => /\ bproc[p].snap # <<>>
               => (bills = bproc[p].snap[1].bills /\ tables = bproc[p].snap[1].tables)
            /\ (bproc[p].nstatus = "completed" /\ bproc[p].ostatus = "completed"
                    /\ bproc[p].new # <<>>)
               => BillsOf(bproc[p].order) # {}

\* C9 witness: a completed notification created the bill, was delivered again, and the
\* second processing is over
C9_Witness ==
    \E p \in BProcs :
        /\ bproc[p].pc = "done"
        /\ bproc[p].op = "notify"
        /\ bproc[p].nstatus = "completed"
        /\ bproc[p].snap # <<>>
        /\ bproc[p].snap[1].bills # <<>>
        /\ bills = bproc[p].snap[1].bills

\* the order was completed, its notification failed, nothing is on its way to the
\* table/bill service, and that service is available again
LostNotification(o) ==
    /\ orders[o].status = "completed"
    /\ \E p \in OProcs : /\ oproc[p].pc = "done"
                         /\ oproc[p].order = o
                         /\ oproc[p].req = "completed"
                         /\ oproc[p].nfail
    /\ notifs[<<o, "completed">>] = 0
    /\ tbUp

\* C8: if an order reaches completed while the table/bill service is unavailable and the
\* notification is lost, then once that service is available again, and unless it goes
\* down once more, a bill for the order eventually exists, with no further client request.
C8_LostNotificationIsRecovered ==
    LostNotification("o1") ~> (BillsOf("o1") # {} \/ ~tbUp)

\* a create_bill_from_order call is running
Creating(p) == bproc[p].op = "create" /\ bproc[p].pc \notin {"idle", "done"}

\* C11: create_bill_from_order on an order whose status is not completed writes nothing
\* to the bill store, and it fails: with the precondition error 400 when the order
\* service has served the order.
C11_NotCompletedWritesNoBill ==
    [][\A p \in BProcs :
         (Creating(p) /\ orders[bproc[p].order].status \notin {Absent, "completed"})
         => /\ bills' = bills
            /\ bproc'[p].pc = "done"
               => /\ bproc'[p].res \in {"400", "404"}
                  /\ (orderUp /\ health'["order_service"].available)
                     => bproc'[p].res = "400"]_vars

\* C11 witness: a call for an order in progress was rejected with 400, no bill stored
C11_Witness ==
    \E p \in BProcs :
        /\ bproc[p].pc = "done"
        /\ bproc[p].op = "create"
        /\ orders[bproc[p].order].status = "in-progress"
        /\ bproc[p].res = "400"
        /\ BillsOf(bproc[p].order) = {}

\* C12: a create_bill_from_order call that fails because the order service cannot be
\* reached ends with 503, one that fails because the order is absent ends with 404, and
\* neither leaves a bill for the order.
C12_NotFoundAndUnavailableDiffer ==
    \A p \in BProcs :
        (bproc[p].pc = "done" /\ bproc[p].op = "create" /\ bproc[p].res # "ok")
        => /\ ~orderUp => bproc[p].res = "503"
           /\ (orderUp /\ health["order_service"].available
                 /\ orders[bproc[p].order].status = Absent) => bproc[p].res = "404"
           /\ BillsOf(bproc[p].order) = {}

\* C13: every item of the bill a create_bill_from_order call has written carries the
\* catalog's current price when the lookup of the item succeeds, and the price recorded
\* on the order item when it fails.
C13_CatalogPricePreferred ==
    \A p \in BProcs :
        (/\ bproc[p].pc = "done"
         /\ bproc[p].op = "create"
         /\ bproc[p].res = "ok"
         /\ bproc[p].new # <<>>
         /\ bproc[p].ret = bproc[p].new)
        => \A k \in DOMAIN bproc[p].ret[1].items :
             LET item == bproc[p].ret[1].items[k]
                 lookup == fetch_menu_item_details(health, item.item_id)
             IN  item.price = IF lookup.ok THEN lookup.price
                              ELSE OrderItems[bproc[p].order][k].price

\* the requests that write a bill: create_bill_from_order at its insert,
\* force_refresh_from_services and reconcile_bill at their $set
BillWriters == {p \in BProcs : bproc[p].pc \in {"cb_insert", "fr_write", "rc_write"}}

\* C14: whenever create_bill_from_order, force_refresh_from_services or
\* reconcile_bill(auto_fix=true) stores a bill with the items it derived, the stored
\* total_amount is the sum of price*quantity over the stored items.
C14_WrittenTotalIsSumOfItems ==
    [][BillWriters # {} =>
         \A i \in DOMAIN bills' :
            (i \notin DOMAIN bills \/ bills'[i].items # bills[i].items)
                => bills'[i].total_amount = SumItems(bills'[i].items)]_vars

ItemKinds == {"missing", "extra", "quantity"}

\* a reconcile_bill(auto_fix=true) that repaired the bill and verified it again
Repaired(p) ==
    /\ bproc[p].pc = "done"
    /\ bproc[p].op = "reconcile"
    /\ bproc[p].arg = "auto_fix"
    /\ bproc[p].new # <<>>
    /\ bproc[p].prev # <<>>

\* C16: when reconcile_bill(auto_fix=true) has repaired a bill whose items diverged
\* from the order (extra item, missing item, quantity mismatch), the order service and
\* the catalog being reachable, the verification that follows reports verified=true
\* (stated for the bills whose billed prices are the catalog's).
C16_ReconcileThenVerified ==
    \A p \in BProcs :
        (/\ Repaired(p)
         /\ \E issue \in bproc[p].prev[1].issues : issue.kind \in ItemKinds
         /\ orderUp /\ menuUp
         /\ bproc[p].ret[1].order_exists
         /\ \A issue \in bproc[p].ret[1].issues : issue.kind # "price")
        => bproc[p].ret[1].verified

ItemIdsOf(items) == {items[k].item_id : k \in DOMAIN items}
QuantitiesOf(items, id) == {items[k].quantity : k \in {j \in DOMAIN items : items[j].item_id = id}}

\* the item divergences between a bill and its order
Divergences(bill_items, order_items) ==
    {Issue("missing", id) : id \in ItemIdsOf(order_items) \ ItemIdsOf(bill_items)}
    \cup {Issue("extra", id) : id \in ItemIdsOf(bill_items) \ ItemIdsOf(order_items)}
    \cup {Issue("quantity", id) :
            id \in {i \in ItemIdsOf(bill_items) \cap ItemIdsOf(order_items) :
                      QuantitiesOf(bill_items, i) # QuantitiesOf(order_items, i)}}

\* a verify_bill_consistency that compared the bill with its order
Verified(p) ==
    /\ bproc[p].pc = "done"
    /\ bproc[p].op = "verify"
    /\ bproc[p].ret # <<>>
    /\ bproc[p].ret[1].order_exists

\* C17: verify_bill_consistency reports one issue for each item of the order that the
\* bill lacks, one for each item of the bill that the order lacks, one for each shared
\* item whose quantities differ and no other item issue; it reports verified=false
\* when there is such a divergence and verified=true exactly when it found no issue.
C17_VerifyReportsExactlyTheDivergences ==
    \A p \in BProcs :
        Verified(p) =>
            LET results == bproc[p].ret[1]
                bill == bproc[p].seen[1]
                diverging == Divergences(bill.items, OrderItems[bill.order_id])
            IN  /\ {issue \in results.issues : issue.kind \in ItemKinds} = diverging
                /\ diverging # {} => ~results.verified
                /\ results.verified <=> results.issues = {}

C17_Witness ==
    \E p \in BProcs :
        /\ Verified(p)
        /\ Issue("extra", "soup") \in bproc[p].ret[1].issues
        /\ ~bproc[p].ret[1].verified

\* C18: a bill whose table id, item set, quantities and total agree with its order is
\* reported verified=true by verify_bill_consistency, whatever the catalog's current
\* prices are.
C18_PriceDifferenceDoesNotBlock ==
    \A p \in BProcs :
        (/\ Verified(p)
         /\ \A issue \in bproc[p].ret[1].issues :
                issue.kind \notin ItemKinds \cup {"table", "total"})
        => bproc[p].ret[1].verified

\* C19: no step of verify_bill_consistency changes the bill, table or order stores, and
\* no step of reconcile_bill changes the bill store unless auto_fix is set and the
\* first verification found issues.
C19_VerifyAndReportAreReadOnly ==
    [][\A p \in BProcs :
          /\ (bproc[p].op = "verify" /\ bproc[p].pc \notin {"idle", "done"})
                => bills' = bills /\ tables' = tables /\ orders' = orders
          /\ (/\ bproc[p].op = "reconcile" /\ bproc[p].pc \notin {"idle", "done"}
              /\ \/ bproc[p].arg # "auto_fix"
                 \/ bproc[p].prev = <<>>
                 \/ bproc[p].prev[1].verified)
                => bills' = bills]_vars

C19_Witness ==
    \E p \in BProcs :
        /\ bproc[p].pc = "done"
        /\ bproc[p].op = "reconcile"
        /\ bproc[p].arg = "report"
        /\ bproc[p].ret # <<>>
        /\ ~bproc[p].ret[1].verified
        /\ Issue("quantity", "pasta") \in bproc[p].ret[1].issues

\* a force_refresh_from_services that wrote the bill it read
Refreshed(p) ==
    /\ bproc[p].pc = "done"
    /\ bproc[p].op = "refresh"
    /\ bproc[p].res = "refreshed"

\* C20: after force_refresh_from_services succeeds, the bill's status is final when
\* the order's status is completed or delivered, and is the status the bill had
\* before the call when the order has any other status.
C20_RefreshPromotesToFinal ==
    \A p \in BProcs :
        Refreshed(p) =>
            LET before == bproc[p].seen[1]
                after == find_one_by_bill_id(bproc[p].bill)[1]
            IN  IF orders[before.order_id].status \in {"completed", "delivered"}
                THEN after.status = "final"
                ELSE after.status = before.status

C20_Witness ==
    \E p \in BProcs :
        /\ Refreshed(p)
        /\ orders[bproc[p].seen[1].order_id].status = "delivered"
        /\ bproc[p].seen[1].status = "open"
        /\ find_one_by_bill_id(bproc[p].bill)[1].status = "final"

\* what force_refresh_from_services would write if it derived update_data from the
\* stored bill at the moment of its write, with the answers the order service and the
\* menu service gave it
atomic_update(p, stored) ==
    LET update_data == bproc[p].new[1]
        items == [k \in DOMAIN update_data.items |->
                    LET item == update_data.items[k]
                        orig == original_price(stored.items, item.item_id)
                    IN  IF item.item_id \in update_data.from_bill /\ orig # <<>>
                        THEN [item EXCEPT !.price = orig[1]]
                        ELSE item]
    IN  [update_data EXCEPT
            !.items = items,
            !.total_amount = SumItems(items),
            !.table_id = IF orders[stored.order_id].table_id # stored.table_id
                         THEN orders[stored.order_id].table_id ELSE "none",
            !.status = refresh_status(bproc[p].ostatus, stored.status)]

\* C15: the write of force_refresh_from_services is an atomic read-modify-write on the
\* latest stored bill: the bill it leaves is the one its update gives when derived
\* from the bill as stored at the write, so no write committed since its read is lost.
C15_RefreshWritesOnLatestBill ==
    [][\A p \in BProcs :
          (/\ bproc[p].op = "refresh"
           /\ bproc[p].pc = "fr_write"
           /\ bproc'[p].pc = "done"
           /\ MatchedIndex(bproc[p].bill) # 0)
          => LET i == MatchedIndex(bproc[p].bill)
             IN  bills'[i] = apply_refresh(bills[i], atomic_update(p, bills[i]))]_vars

\* C21: after force_refresh_from_services succeeds, the bill has one item per item of
\* the order, with the order's item id and quantity, priced at the catalog price when
\* the lookup succeeds, else at the price the bill held for the item before the
\* refresh, else at the order item's price.
C21_RefreshedItemsAndPrices ==
    \A p \in BProcs :
        Refreshed(p) =>
            LET before == bproc[p].seen[1]
                after == find_one_by_bill_id(bproc[p].bill)[1]
                order_items == OrderItems[before.order_id]
            IN  /\ DOMAIN after.items = DOMAIN order_items
                /\ \A k \in DOMAIN order_items :
                     LET lookup == fetch_menu_item_details(health, order_items[k].item_id)
                         held == find_item(before.items, order_items[k].item_id)
                     IN  /\ after.items[k].item_id = order_items[k].item_id
                         /\ after.items[k].quantity = order_items[k].quantity
                         /\ after.items[k].price =
                                IF lookup.ok THEN lookup.price
                                ELSE IF held # <<>> THEN held[1].price
                                ELSE order_items[k].price

C21_Witness ==
    \E p \in BProcs :
        /\ Refreshed(p)
        /\ ~fetch_menu_item_details(health, "pasta").ok
        /\ find_item(bproc[p].seen[1].items, "pasta") # <<>>
        /\ find_item(bproc[p].seen[1].items, "pasta")[1].price = 60
        /\ find_one_by_bill_id(bproc[p].bill)[1].items = << [item_id |-> "pasta", price |-> 60, quantity |-> 2] >>

Active(b) ==
    /\ find_one_by_bill_id(b) # <<>>
    /\ find_one_by_bill_id(b)[1].status \in {"open", "final"}

\* the driver calls force_refresh_from_services on the bill
DriverRefreshes(b) == bproc[Driver].pc = "fr_find" /\ bproc[Driver].bill = b

Reachable(svc) == IF svc = "order_service" THEN orderUp ELSE menuUp

\* C23: a successful health probe resets failure_count to 0 and marks the collaborator
\* available; a failed probe adds one to failure_count; counted from an available
\* collaborator with failure_count 0, the collaborator is still available after one
\* or two failed probes in a row and is unavailable from the third on.
C23_ThirdFailedProbeMarksUnavailable ==
    [][\A svc \in Services :
          /\ health'[svc].last_check # health[svc].last_check
                => IF Reachable(svc)
                   THEN health'[svc].available /\ health'[svc].failure_count = 0
                   ELSE health'[svc].failure_count = Bump(health[svc].failure_count)
          /\ health'[svc].available <=> health'[svc].failure_count < MAX_FAILURES]_vars

C23_Witness ==
    /\ ~health["order_service"].available
    /\ health["order_service"].failure_count = MAX_FAILURES
    /\ health["menu_service"].available
    /\ health["menu_service"].failure_count = 2

\* C24: when the order service is marked unavailable and more than 60 seconds have
\* passed since its last check, the next fetch_order_details reconsiders it: it is
\* marked available again, its failure_count restarts from 0 and the request is sent
\* (so the count is at most 1 after the call).
C24_UnavailableIsReconsidered ==
    [][\A p \in BProcs :
          (/\ bproc[p].pc = "fr_fetch"
           /\ bproc'[p].pc # "fr_fetch"
           /\ ~health["order_service"].available
           /\ now - health["order_service"].last_check > RECOVERY_TIMEOUT)
          => /\ health'["order_service"].available
             /\ health'["order_service"].failure_count <= 1]_vars

\* the tracker marks the collaborator unavailable and will go on doing so during a
\* call made now: no probe is due and the recovery timeout has not elapsed
MarkedUnavailable(svc) ==
    /\ ~health[svc].available
    /\ now - health[svc].last_check <= HEALTH_CHECK_INTERVAL

TFollowedByDigits(chars) ==
    /\ Len(chars) >= 2
    /\ chars[1] = "T"
    /\ \A i \in 2..Len(chars) : chars[i] \in Digits

\* C26: POST /orders with a table id that is not 'T' followed by digits, or with no
\* items, is answered with the validation failure 400, not with the 500 of a storage
\* error, and stores no order.
C26_InvalidOrderIsAValidationFailure ==
    [][\A p \in OProcs, o \in Orders, chars \in TableIdInputs, item_count \in {0, 1} :
          (/\ create_order_route(p, o, chars, item_count, TRUE)
           /\ (item_count = 0 \/ ~TFollowedByDigits(chars)))
          => /\ oproc'[p].pc = "done"
             /\ oproc'[p].res = "400"
             /\ orders' = orders]_vars

\* C27: an order leaves the store only while its status is received.
C27_OnlyReceivedOrdersAreDeleted ==
    [][\A o \in Orders :
          (orders[o].status # Absent /\ orders'[o].status = Absent)
          => orders[o].status = "received"]_vars

\* C28: update_order_item leaves the order's status, its table and every line item but
\* the targeted one as they are, and it is accepted whatever the order's status is:
\* it ends with the targeted item in the requested status.
C28_ItemUpdateTouchesOnlyTheItem ==
    [][\A p \in OProcs :
          (oproc[p].op = "update_order_item" /\ oproc[p].pc \notin {"idle", "done"})
          => /\ orders' = orders
             /\ \A o \in Orders : \A k \in DOMAIN item_status[o] :
                    item_status'[o][k] # item_status[o][k]
                    => o = oproc[p].order /\ OrderItems[o][k].item_id = oproc[p].cur
             /\ (/\ oproc'[p].pc = "done"
                 /\ orders[oproc[p].order].status # Absent
                 /\ \E k \in DOMAIN OrderItems[oproc[p].order] :
                        OrderItems[oproc[p].order][k].item_id = oproc[p].cur)
                => /\ oproc'[p].res = "ok"
                   /\ \E k \in DOMAIN OrderItems[oproc[p].order] :
                        /\ OrderItems[oproc[p].order][k].item_id = oproc[p].cur
                        /\ item_status'[oproc[p].order][k] = oproc[p].req]_vars

C28_Witness ==
    \E p \in OProcs :
        /\ oproc[p].pc = "done"
        /\ oproc[p].op = "update_order_item"
        /\ oproc[p].order = "o2"
        /\ oproc[p].cur = "pasta"
        /\ oproc[p].res = "ok"
        /\ orders["o2"].status = "completed"
        /\ item_status["o2"] = <<"pending", "cancelled">>


\* C29: a create_table request for a table number that already exists ends without an
\* error, returns the record of the existing table, and leaves the table store as it
\* was.
C29_DuplicateTableReturnsExisting ==
    [][\A p \in BProcs :
          (/\ bproc[p].op = "create_table"
           /\ bproc[p].pc = "ct_insert"
           /\ tables[bproc[p].arg] # Absent
           /\ bproc'[p].pc = "done")
          => /\ bproc'[p].res = "ok"
             /\ bproc'[p].ret = <<TableResponse(bproc[p].arg, tables[bproc[p].arg])>>
             /\ tables' = tables]_vars


\* the status each request of the happy path is issued in
HappyPredecessor ==
    [s \in HappyStatuses |->
        CASE s = "in-progress" -> "received"
          [] s = "ready"       -> "in-progress"
          [] s = "delivered"   -> "ready"
          [] s = "completed"   -> "delivered"]

\* the sum of price * quantity over the items of the order
OrderTotal(o) ==
    LET upto[n \in 0..Len(OrderItems[o])] ==
            IF n = 0 THEN 0
            ELSE upto[n - 1] + OrderItems[o][n].price * OrderItems[o][n].quantity
    IN  upto[Len(OrderItems[o])]

\* C30: on the happy path a created order has status received; in-progress, ready,
\* delivered and completed, each requested in the status before it, are accepted;
\* create_bill_from_order on the completed order returns a bill whose total is the sum
\* of price * quantity of the order's items; and the table of a bill that is not yet
\* marked paid is occupied.
C30_HappyPath ==
    /\ (oproc["r1"].op = "create_order" /\ oproc["r1"].pc = "done")
       => /\ oproc["r1"].res = "ok"
          /\ orders[oproc["r1"].order].status = "received"
    /\ (/\ oproc["r1"].op = "update_order_status"
        /\ oproc["r1"].pc = "done"
        /\ oproc["r1"].req \in HappyStatuses
        /\ oproc["r1"].cur = HappyPredecessor[oproc["r1"].req])
       => /\ oproc["r1"].res = "ok"
          /\ oproc["r1"].ret = oproc["r1"].req
          /\ orders[oproc["r1"].order].status = oproc["r1"].req
    /\ (/\ bproc["b1"].op = "create"
        /\ bproc["b1"].pc = "done"
        /\ orders[bproc["b1"].order].status = "completed")
       => /\ bproc["b1"].res = "ok"
          /\ bproc["b1"].ret # <<>>
          /\ bproc["b1"].ret[1].order_id = bproc["b1"].order
          /\ bproc["b1"].ret[1].total_amount = OrderTotal(bproc["b1"].order)
    /\ \A i \in DOMAIN bills :
          bills[i].payment_status # "paid" => tables[bills[i].table_id] = "occupied"

C30_Witness ==
    /\ bproc["b1"].op = "create"
    /\ bproc["b1"].pc = "done"
    /\ bproc["b1"].order = "o1"
    /\ bproc["b1"].res = "ok"
    /\ bproc["b1"].ret[1].total_amount = 100
    /\ orders["o1"] = [status |-> "completed", table_id |-> "T3"]
    /\ tables["T3"] = "occupied"
    /\ \E i \in DOMAIN bills : bills[i].order_id = "o1" /\ bills[i].payment_status = "pending"


\* the request has sent its probe of the service and has not got the answer yet
ProbeInFlight(p, svc) ==
    /\ bproc[p].op = "health"
    /\ bproc[p].pc = "csh_await"
    /\ bproc[p].arg = svc

\* C31: no two probes of one collaborator are sent within HEALTH_CHECK_INTERVAL
\* seconds of each other, also when the requests that run check_service_health overlap.
C31_OneProbePerWindow ==
    \A p, q \in BProcs : \A svc \in Services :
        (p # q /\ ProbeInFlight(p, svc) /\ ProbeInFlight(q, svc))
        => \/ bproc[p].seen[1] - bproc[q].seen[1] > HEALTH_CHECK_INTERVAL
           \/ bproc[q].seen[1] - bproc[p].seen[1] > HEALTH_CHECK_INTERVAL


C33_TableFailureDoesNotAbortCreation ==
    [][\A p \in BProcs :
          /\ (/\ bproc[p].pc = "cb_table_find"
              /\ bproc'[p] # bproc[p]
              /\ tables[bproc[p].new[1].table_id] = Absent)
             => /\ bproc'[p].pc = "cb_insert"
                /\ bproc'[p].new = bproc[p].new
          /\ (bproc'[p] # bproc[p] /\ Len(bills') > Len(bills))
             => /\ bproc[p].pc = "cb_insert"
                /\ tables[bproc[p].new[1].table_id] \in {Absent, "occupied"}
                /\ bills' = Append(bills, bproc[p].new[1])
          /\ (/\ bproc[p].pc = "cb_reread"
              /\ bproc'[p] # bproc[p]
              /\ tables[bproc[p].new[1].table_id] = Absent)
             => /\ bproc'[p].pc = "done"
                /\ bproc'[p].res = "ok"
                /\ bproc'[p].ret # <<>>
                /\ bproc'[p].ret[1].order_id = bproc[p].order
                /\ \E i \in DOMAIN bills : bills[i] = bproc'[p].ret[1]]_vars

C33_Witness ==
    \E p \in BProcs :
        /\ bproc[p].pc = "done"
        /\ bproc[p].op = "create"
        /\ bproc[p].order = "o1"
        /\ bproc[p].res = "ok"
        /\ bproc[p].new # <<>>
        /\ tables["T7"] = Absent
        /\ bproc[p].ret = <<bproc[p].new[1]>>
        /\ \E i \in DOMAIN bills : bills[i].order_id = "o1"


\* C34: a force_refresh_from_services whose bill is not in the store, or whose order
\* is absent, unreachable or health-gated, ends there with refreshed = false and an
\* issue, and leaves the bill store as it is; a refresh writes only with an order it
\* has fetched.
C34_FailedRefreshWritesNothing ==
    [][\A p \in BProcs :
          (bproc[p].op = "refresh" /\ bproc'[p] # bproc[p])
          => /\ (bproc[p].pc = "fr_find" /\ find_one_by_bill_id(bproc[p].bill) = <<>>)
                => /\ bproc'[p].pc = "done"
                   /\ bproc'[p].res = "issues"
                   /\ bills' = bills
             /\ (/\ bproc[p].pc = "fr_fetch"
                 /\ \/ orders[bproc[p].seen[1].order_id].status = Absent
                    \/ ~orderUp
                    \/ MarkedUnavailable("order_service"))
                => /\ bproc'[p].pc = "done"
                   /\ bproc'[p].res = "issues"
                   /\ bills' = bills
             /\ bills' # bills
                => /\ bproc[p].pc = "fr_write"
                   /\ bproc[p].ostatus = orders[bproc[p].seen[1].order_id].status
                   /\ bproc[p].ostatus # Absent]_vars

C34_Witness ==
    \E p \in BProcs :
        /\ bproc[p].pc = "done"
        /\ bproc[p].op = "refresh"
        /\ bproc[p].res = "issues"
        /\ bproc[p].seen = <<StoredBill("o1")>>
        /\ orders["o1"].status = Absent
        /\ orderUp
        /\ health["order_service"].available
        /\ bills = <<StoredBill("o1")>>


\* C35: a lookup of an order that the reachable order service does not have counts no
\* failure: it does not raise failure_count of order_service and does not mark the
\* service unavailable.
C35_NotFoundIsNotAFailure ==
    [][\A p \in BProcs :
          (/\ bproc[p].pc = "fr_fetch"
           /\ bproc'[p] # bproc[p]
           /\ orderUp
           /\ orders[bproc[p].seen[1].order_id].status = Absent)
          => /\ health'["order_service"].failure_count <= health["order_service"].failure_count
             /\ health["order_service"].available => health'["order_service"].available]_vars


\* a collaborator that is unavailable in tracker h and available in tracker h2 has
\* failure_count 0 in h2
SwitchedBackWithZero(h, h2, svc) ==
    (~h[svc].available /\ h2[svc].available) => h2[svc].failure_count = 0

\* C36: a collaborator that the tracker marks unavailable has failure_count of at
\* least MAX_FAILURES, and a probe or a timeout that switches a collaborator back to
\* available leaves its failure_count at 0.
C36_TrackerInvariant ==
    \A svc \in Services :
        /\ ~health[svc].available => health[svc].failure_count >= MAX_FAILURES
        /\ SwitchedBackWithZero(health, check_service_health(health, now), svc)
        /\ SwitchedBackWithZero(health, is_service_available(health, svc, now), svc)
        /\ SwitchedBackWithZero(check_service_health(health, now),
                                is_service_available(check_service_health(health, now), svc, now),
                                svc)

\* the menu service is marked unavailable and still down, and the timeout has elapsed:
\* is_service_available switches it back
C36_Witness ==
    /\ ~menuUp
    /\ ~health["menu_service"].available
    /\ health["menu_service"].failure_count >= MAX_FAILURES
    /\ now - health["menu_service"].last_check > RECOVERY_TIMEOUT
    /\ is_service_available(health, "menu_service", now)["menu_service"].available
    /\ \E p \in BProcs : bproc[p].pc = "fr_prices"


\* C37: no step of a request or of the driver (a refresh, a notification, a
\* reconciliation) changes the status of a bill that is paid or cancelled.
C37_PaidAndCancelledAreFinalStates ==
    [][(\E p \in BProcs \cup {Driver} : bproc'[p] # bproc[p])
       => \A i \in DOMAIN bills :
            (bills[i].status \in {"paid", "cancelled"} /\ i \in DOMAIN bills')
            => bills'[i].status = bills[i].status]_vars


\* C38: the periodic driver leaves the items and the total of a bill that has been
\* marked paid as they are.
C38_DriverLeavesPaidBillsAlone ==
    [][bproc'[Driver] # bproc[Driver]
       => \A i \in DOMAIN bills :
            bills[i].payment_status = "paid"
            => /\ bills'[i].items = bills[i].items
               /\ bills'[i].total_amount = bills[i].total_amount]_vars


=============================================================================
